---- MODULE Spec2Model ----
(***************************************************************************)
(* Model of the Supabase MCP adapter: DatabaseClient (direct / management  *)
(* API), the database tool handlers and the storage tool handlers.         *)
(* One behaviour is one tool invocation on a server configured in Init.    *)
(* Text is modelled as sequences of tokens and markdown as sequences of    *)
(* line records.                                                           *)
(***************************************************************************)
EXTENDS Integers, Sequences, FiniteSets, TLC

\* ------------------------------------------------------------------ bounds
MaxCols == 2
MaxTables == 2
MaxExecRows == 2

\* ------------------------------------------------------------------ values
NULL == ""

Modes == {"postgres", "management-api"}

SessionTools == {"describe-table", "list-tables", "describe-functions",
                 "get-function-definition"}

StorageTools == {"upload-file", "delete-file", "list-files", "download-file",
                 "create-bucket", "delete-bucket", "move-file", "copy-file",
                 "generate-signed-url", "get-file-info", "list-buckets",
                 "empty-bucket"}

Tools == {"execute-sql"} \cup SessionTools \cup StorageTools

\* the seven optional flags of describe-table
Flags == {"includeConstraints", "includeSampleRows", "includeRlsPolicies",
          "includeTriggers", "includeIndexes", "includeDependencies",
          "includeReferencedBy"}

\* text tokens: a bare word, or a double-quoted identifier
W(s) == [k |-> "w", s |-> s]
Q(s) == [k |-> "q", s |-> s]
Dot == [k |-> "p", s |-> "."]

\* in the order of ORDER BY table_name
TableNames == <<"orders", "users", "visits", "zones">>
ColNames == <<"id", "name", "price", "qty", "note">>

\* ---------------------------------------------------------- error values
\* a thrown JavaScript value: an Error, a plain object or a string
JsError(msg) == [cls |-> "Error", message |-> msg]
JsObject(status, msg) == [cls |-> "object", status |-> status, message |-> msg]
JsString(msg) == [cls |-> "string", message |-> msg]

RelationMissing(t) == <<W("relation"), Q(t), W("does"), W("not"), W("exist")>>
ColumnMissing(c) == <<W("column"), Q(c), W("does"), W("not"), W("exist")>>
ColumnOfRelation(c, t) ==
    <<W("column"), Q(c), W("of"), W("relation"), Q(t), W("does"), W("not"),
      W("exist")>>
NotNullViolation(c, t) ==
    <<W("null"), W("value"), W("in"), W("column"), Q(c), W("of"),
      W("relation"), Q(t), W("violates"), W("not-null"), W("constraint")>>
SyntaxError == <<W("syntax"), W("error"), W("at"), W("end")>>
PermissionDenied == <<W("permission"), W("denied"), W("for"), W("table"),
                      W("users")>>
ConnectRefused == <<W("connect"), W("ECONNREFUSED")>>
NetworkErrorMsg == <<W("Network"), W("Error")>>
RequiresPostgresMsg ==
    <<W("executeWithClient"), W("requires"), W("postgres"), W("mode")>>

Mentions(text, word) == \E i \in 1..Len(text) : text[i] = W(word)

\* the public schema has a base table users
HasUsers(cat) ==
    \E i \in 1..Len(cat.tables) : cat.tables[i].table_name = "users"

\* the table is written schema-qualified in the statement
Qualified(query) == \E i \in 1..Len(query) : query[i] = Dot

\* messages with which the database can reject the given statement
SqlErrorsOf(query, cat) ==
    (IF ~Mentions(query, "users") THEN {}
     ELSE IF ~HasUsers(cat)
     THEN {RelationMissing(IF Qualified(query) THEN "public.users"
                           ELSE "users")}
     ELSE {PermissionDenied}
          \cup (IF Mentions(query, "nme")
                THEN {ColumnMissing("nme")} ELSE {})
          \cup (IF Mentions(query, "UPDATE") \/ Mentions(query, "INSERT")
                THEN {ColumnOfRelation("nme", "users")} ELSE {})
          \cup (IF Mentions(query, "INSERT")
                THEN {NotNullViolation("id", "users")} ELSE {}))
    \cup (IF Mentions(query, "now") THEN {ColumnMissing("now")} ELSE {})
    \cup (IF Mentions(query, "INSERT") THEN {SyntaxError} ELSE {})

\* ------------------------------------------------------------- variables
VARIABLES
    mode,       \* DatabaseClient.config.mode
    tool,       \* name of the invoked tool ("" before the invocation)
    flags,      \* describe-table: the set of flags that are true
    sqlText,    \* execute-sql: the query argument (token sequence)
    catalog,    \* execute-sql: the database catalog the call runs against
    args,       \* upload-file: which of fileContent / localFilePath are given
    reads,      \* number of accesses to the local file system
    pc,         \* position of the handler invocation
    op,         \* operation passed to executeWithClient
    conns,      \* every pg Client created, in creation order
    opConn,     \* index of the client handed to the operation (0: none)
    http,       \* number of HTTP requests issued
    issued,     \* kinds of the queries issued on the session connection
    qstat,      \* their state: "inflight", "ok", "failed"
    qval,       \* their results
    pend,       \* completion travelling through a finally block
    origErr,    \* execute-sql: the error createEnhancedErrorResponse got
    outcome,    \* how the handler invocation ended
    failures,   \* collaborator failures that occurred
    env,        \* process.env after config({ path: ".env.local" })
    bootPc,     \* position of the entry point
    bootError,  \* message of the error that ended the entry point
    toolIdx,    \* entry point: index of the next registration block
    registered, \* names passed to server.tool(), in call order
    built,      \* completion of a call of createDatabaseClientFromEnv
    calls,      \* concurrent invocations: the state of each one
    clients,    \* concurrent invocations: every pg Client created
    dbState     \* concurrent invocations: the content of the database

\* the state of the entry point and of the configuration
startupVars == <<env, bootPc, bootError, toolIdx, registered, built>>

\* the state of the client and of the handler invocation
handlerVars == <<mode, tool, flags, sqlText, catalog, args, reads, pc, op,
                 conns, opConn, http, issued, qstat, qval, pend, origErr,
                 outcome, failures>>

\* the state of several invocations running at once
callVars == <<calls, clients, dbState>>

vars == <<handlerVars, startupVars, callVars>>

NoPend == [k |-> "none"]
Val(v) == [k |-> "val", v |-> v]
Thrown(e) == [k |-> "err", e |-> e]

NoOutcome == [kind |-> "none"]
Returned(p) == [kind |-> "returned", payload |-> p]
Rejected(e) == [kind |-> "thrown", error |-> e]

\* ------------------------------------------------------------- responses
Line(tag, cells) == [tag |-> tag, cells |-> cells]

ErrorMessageOf(error) ==
    IF error.cls = "object" THEN <<W("[object Object]")>> ELSE error.message

createErrorResponse(error) ==
    [error |-> TRUE, message |-> ErrorMessageOf(error)]

createGuidedErrorResponse(error, guidance) ==
    [error |-> TRUE, message |-> ErrorMessageOf(error), guidance |-> guidance]

createMarkdownResponse(markdown) ==
    [error |-> FALSE, markdown |-> markdown]

Troubleshooting == <<Line("hdr", <<"Troubleshooting">>)>>


\* ----------------------------------------------------- pattern matching
Min(S) == CHOOSE x \in S : \A y \in S : x <= y

\* a keyword matched case-insensitively (/.../i)
IsKw(tok, lower, upper) == tok.k = "w" /\ tok.s \in {lower, upper}

IsWords(text, i, words) ==
    /\ i + Len(words) - 1 <= Len(text)
    /\ \A j \in 1..Len(words) : text[i + j - 1] = W(words[j])

\* positions at which each pattern matches
PosRelationMissing(text) ==
    {i \in 1..Len(text) :
        /\ i + 4 <= Len(text)
        /\ IsKw(text[i], "relation", "RELATION")
        /\ text[i + 1].k = "q"
        /\ IsWords(text, i + 2, <<"does", "not", "exist">>)}

PosColumnMissing(text) ==
    {i \in 1..Len(text) :
        /\ i + 4 <= Len(text)
        /\ IsKw(text[i], "column", "COLUMN")
        /\ text[i + 1].k = "q"
        /\ IsWords(text, i + 2, <<"does", "not", "exist">>)}

PosColumnOfRelation(text) ==
    {i \in 1..Len(text) :
        /\ i + 4 <= Len(text)
        /\ IsKw(text[i], "column", "COLUMN")
        /\ text[i + 1].k = "q"
        /\ IsKw(text[i + 2], "of", "OF")
        /\ IsKw(text[i + 3], "relation", "RELATION")
        /\ text[i + 4].k = "q"}

PosTableQuoted(text) ==
    {i \in 1..Len(text) :
        /\ i + 1 <= Len(text)
        /\ IsKw(text[i], "table", "TABLE")
        /\ text[i + 1].k = "q"}

PosKwWord(text, lower, upper) ==
    {i \in 1..Len(text) :
        /\ i + 1 <= Len(text)
        /\ IsKw(text[i], lower, upper)
        /\ text[i + 1].k = "w"}

PosInsertInto(text) ==
    {i \in 1..Len(text) :
        /\ i + 2 <= Len(text)
        /\ IsKw(text[i], "insert", "INSERT")
        /\ IsKw(text[i + 1], "into", "INTO")
        /\ text[i + 2].k = "w"}

\* String.prototype.match with one capture group: the capture of the
\* leftmost match, NULL when the pattern does not match
Capture(positions, text, offset) ==
    IF positions = {} THEN NULL ELSE text[Min(positions) + offset].s

\* the six patterns of extractTableFromError, in order
PatternCapture(n, text) ==
    CASE n = 1 -> Capture(PosRelationMissing(text), text, 1)
      [] n = 2 -> Capture(PosColumnOfRelation(text), text, 4)
      [] n = 3 -> Capture(PosTableQuoted(text), text, 1)
      [] n = 4 -> Capture(PosKwWord(text, "from", "FROM"), text, 1)
      [] n = 5 -> Capture(PosKwWord(text, "update", "UPDATE"), text, 1)
      [] n = 6 -> Capture(PosInsertInto(text), text, 2)

\* match = error.match(pattern) || query.match(pattern)
PatternMatch(n, error, query) ==
    IF PatternCapture(n, error) # NULL THEN PatternCapture(n, error)
    ELSE PatternCapture(n, query)

extractTableFromError(error, query) ==
    LET hits == {n \in 1..6 : PatternMatch(n, error, query) # NULL}
    IN  IF hits = {} THEN NULL ELSE PatternMatch(Min(hits), error, query)

\* createEnhancedErrorResponse: the three tests that select the lookup path
columnError(msg) == PosColumnMissing(msg) # {}
relationError(msg) == PosRelationMissing(msg) # {}
columnOfRelationError(msg) == PosColumnOfRelation(msg) # {}

NeedsLookup(msg) ==
    columnError(msg) \/ relationError(msg) \/ columnOfRelationError(msg)

\* ------------------------------------------------------- catalog values
\* a row of information_schema.columns
Column(i) ==
    [column_name |-> ColNames[i],
     data_type |-> IF i % 2 = 1 THEN "numeric" ELSE "varchar",
     is_nullable |-> IF i % 2 = 1 THEN "NO" ELSE "YES",
     column_default |-> IF i % 2 = 1 THEN "0" ELSE NULL,
     numeric_precision |-> IF i % 2 = 1 THEN 10 ELSE 0,
     numeric_scale |-> IF i % 2 = 1 THEN i - 1 ELSE 0,
     character_maximum_length |-> IF i % 2 = 1 THEN 0 ELSE 255]

StructureResults == {[i \in 1..n |-> Column(i)] : n \in 0..MaxCols}

\* one line of the column table; shared by describe-table and the guidance
ColumnLine(column) ==
    LET nullable == IF column.is_nullable = "YES" THEN "Y" ELSE ""
        defaultVal == column.column_default
        precision == IF column.numeric_precision # 0
                     THEN <<column.numeric_precision, column.numeric_scale>>
                     ELSE <<>>
        length == IF column.character_maximum_length # 0
                  THEN <<column.character_maximum_length>>
                  ELSE <<>>
        type == <<column.data_type, precision, length>>
    IN  Line("col", <<column.column_name, type, nullable, defaultVal>>)

ColumnLines(rows) == [i \in 1..Len(rows) |-> ColumnLine(rows[i])]

\* ------------------------------------------------------ execute-sql data
\* cell values of a result row
Cell(t, v) == [t |-> t, v |-> v]

\* a result row: its (key, value) pairs in column order
ExecRow(i) ==
    <<[key |-> "id", val |-> Cell("number", i)],
      [key |-> "name",
       val |-> IF i % 3 = 1 THEN Cell("string", "ann")
               ELSE IF i % 3 = 2 THEN Cell("null", 0)
               ELSE Cell("string", "")]>>

ExecRowSets == {[i \in 1..n |-> ExecRow(i)] : n \in 0..MaxExecRows}

\* queries the caller can pass to execute-sql
ExecQueries ==
    {<<W("SELECT"), W("nme"), W("FROM"), W("users")>>,
     <<W("SELECT"), W("nme"), W("FROM"), W("public"), Dot, W("users")>>,
     <<W("UPDATE"), W("users"), W("SET"), W("nme")>>,
     <<W("INSERT"), W("INTO"), W("users"), W("nme"), W("VALUES")>>,
     \* the inserted value is the text: relation "jobs" does not exist
     <<W("INSERT"), W("INTO"), W("users"), W("nme"), W("VALUES"),
       W("relation"), Q("jobs"), W("does"), W("not"), W("exist")>>,
     <<W("SELECT"), W("now")>>}

\* the base tables of schema public, as information_schema.tables lists them
TableListResults ==
    {[i \in 1..n |-> [table_name |-> TableNames[i]]] : n \in 0..MaxTables}

\* the catalog: the base tables of schema public, and the rows that
\* information_schema.columns holds under table_name = 'users' in any
\* schema (a users table outside public has rows there as well)
Catalogs ==
    {[tables |-> t, users |-> c] :
        t \in TableListResults, c \in StructureResults}

NoCatalog == [tables |-> <<>>, users |-> <<>>]

\* structureQuery: the columns of every table with the given name
ColumnsNamed(cat, tableName) ==
    IF tableName = "users" THEN cat.users ELSE <<>>

\* ------------------------------------------------------------ connections
NewClient == [st |-> "new", ends |-> 0]

Cur == Len(conns)

OpenConns == {i \in 1..Len(conns) : conns[i].st = "open"}

\* client.connect() succeeded
Connected(cs, i) == [cs EXCEPT ![i].st = "open"]

\* client.end()
Ended(cs, i) == [cs EXCEPT ![i].st = "ended", ![i].ends = @ + 1]

\* an optional string argument: not passed, the empty string, or a
\* non-empty string
ArgValues == {"absent", "empty", "given"}

\* JavaScript truthiness of an optional string
Truthy(v) == v = "given"

NoArgs == [fileContent |-> "absent", localFilePath |-> "absent"]

\* ---------------------------------------------------------- configuration
\* the registration blocks of the entry point, in source order
ToolOrder ==
    <<"execute-sql", "describe-table", "describe-functions", "list-tables",
      "get-function-definition", "upload-file", "delete-file", "list-files",
      "download-file", "create-bucket", "delete-bucket", "move-file",
      "copy-file", "generate-signed-url", "get-file-info", "list-buckets",
      "empty-bucket">>

\* values of DATABASE_MODE; the last one differs from 'management-api'
\* in case only
DatabaseModeValues ==
    {"absent", "empty", "management-api", "postgres", "MANAGEMENT-API"}

\* ENABLED_TOOLS: not set, or a string, given by its comma-separated
\* segments; a segment is a name and the blanks around it
Unset == [set |-> FALSE, segs |-> <<>>]
Str(segs) == [set |-> TRUE, segs |-> segs]
Seg(lead, name, trail) == [lead |-> lead, name |-> name, trail |-> trail]

EnabledToolsValues ==
    {Unset,
     Str(<<Seg(0, "", 0)>>),
     Str(<<Seg(1, "", 0)>>),
     Str(<<Seg(0, "execute-sql", 0)>>),
     Str(<<Seg(0, "execute-sql", 0), Seg(1, "upload-file", 1)>>),
     Str(<<Seg(0, "list-tables", 0), Seg(0, "list-tables", 0)>>),
     Str(<<Seg(0, "no-such-tool", 0), Seg(0, "", 0)>>)}

Envs ==
    [DATABASE_MODE : DatabaseModeValues,
     SUPABASE_PROJECT_REF : ArgValues,
     SUPABASE_ACCESS_TOKEN : ArgValues,
     SUPABASE_CONNECTION_STRING : ArgValues,
     SUPABASE_URL : ArgValues,
     SUPABASE_SERVICE_KEY : ArgValues,
     ENABLED_TOOLS : EnabledToolsValues]

\* a configuration with which the entry point registers every tool
ServingEnv ==
    [DATABASE_MODE |-> "absent",
     SUPABASE_PROJECT_REF |-> "absent",
     SUPABASE_ACCESS_TOKEN |-> "absent",
     SUPABASE_CONNECTION_STRING |-> "given",
     SUPABASE_URL |-> "given",
     SUPABASE_SERVICE_KEY |-> "given",
     ENABLED_TOOLS |-> Unset]

\* String.prototype.trim on a segment
Trim(seg) == seg.name

\* process.env.ENABLED_TOOLS?.split(',').map(t => t.trim()) || []
EnabledTools(e) ==
    IF ~e.ENABLED_TOOLS.set THEN <<>>
    ELSE [i \in 1..Len(e.ENABLED_TOOLS.segs) |-> Trim(e.ENABLED_TOOLS.segs[i])]

isToolEnabled(e, toolName) ==
    LET ENABLED_TOOLS == EnabledTools(e)
    IN  \/ Len(ENABLED_TOOLS) = 0
        \/ \E i \in 1..Len(ENABLED_TOOLS) : ENABLED_TOOLS[i] = toolName

NotSet(name) == <<W(name), W("is"), W("not"), W("set")>>
RequiredFor(name, modeName) ==
    <<W(name), W("is"), W("required"), W("for"), W(modeName), W("mode")>>

\* variant: the access token of the remote mode is not tested
createDatabaseClientFromEnv_NoTokenCheck(e) ==
    LET rawMode == e.DATABASE_MODE
        selected == IF rawMode = "management-api" THEN "management-api"
                    ELSE "postgres"
    IN  IF selected = "management-api"
        THEN IF ~Truthy(e.SUPABASE_PROJECT_REF)
             THEN Thrown(JsError(RequiredFor("SUPABASE_PROJECT_REF",
                                             "management-api")))
             ELSE Val([mode |-> "management-api",
                       projectRef |-> e.SUPABASE_PROJECT_REF,
                       accessToken |-> e.SUPABASE_ACCESS_TOKEN])
        ELSE IF ~Truthy(e.SUPABASE_CONNECTION_STRING)
             THEN Thrown(JsError(RequiredFor("SUPABASE_CONNECTION_STRING",
                                             "postgres")))
             ELSE Val([mode |-> "postgres",
                       connectionString |-> e.SUPABASE_CONNECTION_STRING])

\* the DatabaseClient configuration built from the environment, or the
\* error thrown
createDatabaseClientFromEnv(e) ==
    LET rawMode == e.DATABASE_MODE
        selected == IF rawMode = "management-api" THEN "management-api"
                    ELSE "postgres"
    IN  IF selected = "management-api"
        THEN IF ~Truthy(e.SUPABASE_PROJECT_REF)
             THEN Thrown(JsError(RequiredFor("SUPABASE_PROJECT_REF",
                                             "management-api")))
             ELSE IF ~Truthy(e.SUPABASE_ACCESS_TOKEN)
             THEN Thrown(JsError(RequiredFor("SUPABASE_ACCESS_TOKEN",
                                             "management-api")))
             ELSE Val([mode |-> "management-api",
                       projectRef |-> e.SUPABASE_PROJECT_REF,
                       accessToken |-> e.SUPABASE_ACCESS_TOKEN])
        ELSE IF ~Truthy(e.SUPABASE_CONNECTION_STRING)
             THEN Thrown(JsError(RequiredFor("SUPABASE_CONNECTION_STRING",
                                             "postgres")))
             ELSE Val([mode |-> "postgres",
                       connectionString |-> e.SUPABASE_CONNECTION_STRING])

\* ------------------------------------------------ concurrent invocations
\* the invocations that may be in progress at the same time
Invocations == {1, 2}

\* DatabaseClient.query (one statement) or executeWithClient (a session
\* whose operation issues two statements one after the other)
CallKinds == {"query", "session"}
CallArgs == {"a", "b"}
DbStates == {"s", "t"}

\* what the database answers to a statement
Answer(arg, db) == <<Line("data", <<arg, db>>)>>

NoCall == [pc |-> "idle", kind |-> "", arg |-> "", client |-> 0, left |-> 0,
           pend |-> NoPend, failures |-> {}, outcome |-> NoOutcome]

NoCalls == [i \in Invocations |-> NoCall]

OwnedClient(i) == [owner |-> i, st |-> "new", ends |-> 0]

\* ------------------------------------------------------------------- Init
\* no tool call has been delivered yet
HandlerInit ==
    /\ mode \in Modes
    /\ tool = ""
    /\ flags = {}
    /\ sqlText = <<>>
    /\ catalog = NoCatalog
    /\ args = NoArgs
    /\ reads = 0
    /\ pc = "idle"
    /\ op = ""
    /\ conns = <<>>
    /\ opConn = 0
    /\ http = 0
    /\ issued = <<>>
    /\ qstat = <<>>
    /\ qval = <<>>
    /\ pend = NoPend
    /\ origErr = JsError(<<>>)
    /\ outcome = NoOutcome
    /\ failures = {}

\* the server is serving: the entry point has run with ServingEnv
Init ==
    /\ env = ServingEnv
    /\ bootPc = "serving"
    /\ bootError = <<>>
    /\ toolIdx = Len(ToolOrder) + 1
    /\ registered = ToolOrder
    /\ built = NoPend
    /\ HandlerInit
    /\ calls = NoCalls
    /\ clients = <<>>
    /\ dbState = "s"

\* the transport delivers a validated call to the matching handler
Invoke ==
    /\ pc = "idle"
    /\ bootPc = "serving"
    /\ \E t \in Tools :
        /\ \E i \in 1..Len(registered) : registered[i] = t
        /\ tool' = t
        /\ flags' \in IF t = "describe-table" THEN SUBSET Flags ELSE {{}}
        /\ sqlText' \in IF t = "execute-sql" THEN ExecQueries ELSE {<<>>}
        /\ catalog' \in IF t = "execute-sql"
                        THEN {cat \in Catalogs :
                                HasUsers(cat) => cat.users # <<>>}
                        ELSE {NoCatalog}
        /\ args' \in IF t = "upload-file"
                     THEN [fileContent : ArgValues, localFilePath : ArgValues]
                     ELSE {NoArgs}
        /\ pc' = IF t = "execute-sql" THEN "query"
                 ELSE IF t \in SessionTools THEN "ewc"
                 ELSE IF t = "upload-file" THEN "upload"
                 ELSE "fetch"
        /\ op' = IF t \in SessionTools THEN t ELSE ""
    /\ UNCHANGED <<startupVars, callVars, mode, reads, conns, opConn, http, issued, qstat, qval, pend,
                   origErr, outcome, failures>>

\* ------------------------------------------------- DatabaseClient.query
NoCount == -1

QueryResult(rows, rowCount, command) ==
    [rows |-> rows, rowCount |-> rowCount, command |-> command]

\* results a statement can produce over a direct connection
PostgresResults ==
    {QueryResult(rows, Len(rows), "SELECT") : rows \in ExecRowSets}
    \cup {QueryResult(<<>>, n, "UPDATE") : n \in 0..1}
    \cup {QueryResult(<<>>, NoCount, NULL)}

ApiErrorMessage(message, statusText) ==
    <<W("Management"), W("API"), W("error:")>> \o message
        \o <<W("("), W(statusText), W(")")>>

\* query(): dispatch on the mode; queryPostgres creates its own Client
Query ==
    /\ pc = "query"
    /\ IF mode = "postgres"
       THEN /\ conns' = Append(conns, NewClient)
            /\ pc' = "qp_connect"
       ELSE /\ conns' = conns
            /\ pc' = "api_post"
    /\ UNCHANGED <<startupVars, callVars, mode, tool, flags, sqlText, catalog, args, reads, op, opConn, http, issued,
                   qstat, qval, pend, origErr, outcome, failures>>

\* queryPostgres: await client.connect()
QP_Connect ==
    /\ pc = "qp_connect"
    /\ \/ /\ conns' = Connected(conns, Cur)
          /\ pc' = "qp_query"
          /\ UNCHANGED <<pend, failures>>
       \/ /\ pend' = Thrown(JsError(ConnectRefused))
          /\ failures' = failures \cup {"connect"}
          /\ pc' = "qp_finally"
          /\ UNCHANGED conns
    /\ UNCHANGED <<startupVars, callVars, mode, tool, flags, sqlText, catalog, args, reads, op, opConn, http, issued,
                   qstat, qval, origErr, outcome>>

\* queryPostgres: await client.query(query, params)
QP_Query ==
    /\ pc = "qp_query"
    /\ \/ \E r \in PostgresResults :
            /\ pend' = Val(r)
            /\ UNCHANGED failures
       \/ \E m \in SqlErrorsOf(sqlText, catalog) :
            /\ pend' = Thrown(JsError(m))
            /\ failures' = failures \cup {"sql"}
    /\ pc' = "qp_finally"
    /\ UNCHANGED <<startupVars, callVars, mode, tool, flags, sqlText, catalog, args, reads, op, conns, opConn, http,
                   issued, qstat, qval, origErr, outcome>>

\* variant: end() called at the end of the try block, not in finally
QP_Finally_OnlyOnSuccess ==
    /\ pc = "qp_finally"
    /\ conns' = IF pend.k = "val" THEN Ended(conns, Cur) ELSE conns
    /\ pc' = "q_settled"
    /\ UNCHANGED <<startupVars, callVars, mode, tool, flags, sqlText, catalog, args, reads, op, opConn, http,
                   issued, qstat, qval, pend, origErr, outcome, failures>>

\* queryPostgres: finally { await client.end() }
QP_Finally ==
    /\ pc = "qp_finally"
    /\ conns' = Ended(conns, Cur)
    /\ pc' = "q_settled"
    /\ UNCHANGED <<startupVars, callVars, mode, tool, flags, sqlText, catalog, args, reads, op, opConn, http, issued,
                   qstat, qval, pend, origErr, outcome, failures>>

\* an answer to the POST: status 0 stands for no response at all; message
\* and error are the fields of the body (<<>> when the body has none); raw
\* is the message of the transport error
ApiResponse(status, message, error, raw) ==
    [status |-> status, message |-> message, error |-> error, raw |-> raw]

RequestFailed(status) ==
    <<W("Request"), W("failed"), W("with"), W("status"), W("code"),
      W(ToString(status))>>

\* the failing answers to the given statement
ApiFailures(query, cat) ==
    {ApiResponse(400, m, <<>>, RequestFailed(400)) :
        m \in SqlErrorsOf(query, cat)}
    \cup {ApiResponse(400, <<>>, m, RequestFailed(400)) :
        m \in SqlErrorsOf(query, cat)}
    \cup {ApiResponse(500, <<>>, <<>>, RequestFailed(500)),
          ApiResponse(0, <<>>, <<>>, NetworkErrorMsg)}

\* variant: the body of the answer is not looked at
ManagementApiError_IgnoresBody(response) ==
    LET message == response.raw
        statusText == IF response.status # 0 THEN ToString(response.status)
                      ELSE "network error"
    IN  JsError(ApiErrorMessage(message, statusText))

\* executeSqlViaManagementApi, catch block: the error thrown for a failed
\* request
ManagementApiError(response) ==
    LET message == IF response.message # <<>> THEN response.message
                   ELSE IF response.error # <<>> THEN response.error
                   ELSE response.raw
        statusText == IF response.status # 0 THEN ToString(response.status)
                      ELSE "network error"
    IN  JsError(ApiErrorMessage(message, statusText))

\* queryManagementApi -> executeSqlViaManagementApi: one POST
Api_Post ==
    /\ pc = "api_post"
    /\ http' = http + 1
    /\ \/ \E rows \in ExecRowSets :
            /\ pend' = Val(QueryResult(rows, Len(rows), NULL))
            /\ qstat' = <<"ok">>
            /\ qval' = <<ApiResponse(200, <<>>, <<>>, <<>>)>>
            /\ UNCHANGED failures
       \/ \E response \in ApiFailures(sqlText, catalog) :
            /\ pend' = Thrown(ManagementApiError(response))
            /\ qstat' = <<"failed">>
            /\ qval' = <<response>>
            /\ failures' = failures \cup
                  {IF response.status = 0 THEN "network" ELSE "http"}
    /\ pc' = "q_settled"
    /\ UNCHANGED <<startupVars, callVars, mode, tool, flags, sqlText, catalog, args, reads, op, conns, opConn, issued,
                   origErr, outcome>>

\* ------------------------------------------------- execute-sql handler
FormatCell(c) ==
    IF c.t = "null" THEN "*null*"
    ELSE IF c.t = "string" THEN (IF c.v = "" THEN "*empty*" ELSE c.v)
    ELSE ToString(c.v)

RowKeys(row) == [j \in 1..Len(row) |-> row[j].key]
RowValues(row) == [j \in 1..Len(row) |-> FormatCell(row[j].val)]

\* variant: no branch for a result with a command tag and no rows
ExecMarkdown_NoCommandCase(result) ==
    <<Line("hdr", <<"Query Result">>)>>
    \o (IF result.command # NULL
        THEN <<Line("command", <<result.command>>)>> ELSE <<>>)
    \o (IF result.rowCount # NoCount
        THEN <<Line("rows-affected", <<result.rowCount>>)>> ELSE <<>>)
    \o (IF Len(result.rows) > 0
        THEN <<Line("header", RowKeys(result.rows[1]))>>
             \o [i \in 1..Len(result.rows) |->
                    Line("data", RowValues(result.rows[i]))]
        ELSE <<Line("text", <<"No rows returned">>)>>)

ExecMarkdown(result) ==
    <<Line("hdr", <<"Query Result">>)>>
    \o (IF result.command # NULL
        THEN <<Line("command", <<result.command>>)>> ELSE <<>>)
    \o (IF result.rowCount # NoCount
        THEN <<Line("rows-affected", <<result.rowCount>>)>> ELSE <<>>)
    \o (IF Len(result.rows) > 0
        THEN <<Line("header", RowKeys(result.rows[1]))>>
             \o [i \in 1..Len(result.rows) |->
                    Line("data", RowValues(result.rows[i]))]
        ELSE IF result.command # NULL
        THEN <<Line("text", <<"Query executed successfully">>)>>
        ELSE <<Line("text", <<"No rows returned">>)>>)

QueryAnalysisGuidance(query) ==
    <<Line("hdr", <<"Query Analysis">>), Line("query", query),
      Line("hdr", <<"Debugging Steps">>), Line("hdr", <<"Helpful Commands">>)>>

CommonIssuesGuidance ==
    <<Line("hdr", <<"Common Issues">>), Line("hdr", <<"Next Steps">>)>>

\* the handler after `await dbClient.query(query)`: render the result, or
\* enter createEnhancedErrorResponse from the catch block
ExecSql_Settled ==
    /\ pc = "q_settled"
    /\ IF pend.k = "val"
       THEN /\ outcome' = Returned(createMarkdownResponse(ExecMarkdown(pend.v)))
            /\ pc' = "done"
            /\ UNCHANGED <<op, origErr>>
       ELSE IF NeedsLookup(ErrorMessageOf(pend.e))
       THEN /\ origErr' = pend.e
            /\ op' = "guidance"
            /\ pc' = "ewc"
            /\ UNCHANGED outcome
       ELSE /\ origErr' = pend.e
            /\ outcome' = Returned(createGuidedErrorResponse(
                              pend.e, QueryAnalysisGuidance(sqlText)))
            /\ pc' = "done"
            /\ UNCHANGED op
    /\ pend' = NoPend
    /\ UNCHANGED <<startupVars, callVars, mode, tool, flags, sqlText, catalog, args, reads, conns, opConn, http, issued,
                   qstat, qval, failures>>

\* variant: no test of the mode before `new Client(...)`
EWC_Enter_NoModeCheck ==
    /\ pc = "ewc"
    /\ conns' = Append(conns, NewClient)
    /\ pc' = "ewc_connect"
    /\ UNCHANGED <<startupVars, callVars, mode, tool, flags, sqlText, catalog, args, reads, op, opConn, http,
                   issued, qstat, qval, pend, origErr, outcome, failures>>

\* ------------------------------------- DatabaseClient.executeWithClient
\* the mode test, then `new Client(...)`
EWC_Enter ==
    /\ pc = "ewc"
    /\ IF mode # "postgres"
       THEN /\ pend' = Thrown(JsError(RequiresPostgresMsg))
            /\ pc' = "ewc_exit"
            /\ UNCHANGED conns
       ELSE /\ conns' = Append(conns, NewClient)
            /\ pc' = "ewc_connect"
            /\ UNCHANGED pend
    /\ UNCHANGED <<startupVars, callVars, mode, tool, flags, sqlText, catalog, args, reads, op, opConn, http, issued,
                   qstat, qval, origErr, outcome, failures>>

OperationEntry(o) ==
    CASE o = "describe-table" -> "op_describe"
      [] o = "list-tables" -> "op_list"
      [] o = "describe-functions" -> "op_functions"
      [] o = "get-function-definition" -> "op_getfn"
      [] o = "guidance" -> "op_guidance"

\* variant: the connect failure is swallowed and the operation still runs
EWC_Connect_IgnoresFailure ==
    /\ pc = "ewc_connect"
    /\ \/ /\ conns' = Connected(conns, Cur)
          /\ UNCHANGED failures
       \/ /\ failures' = failures \cup
                {IF op = "guidance" THEN "guidance-connect" ELSE "connect"}
          /\ UNCHANGED conns
    /\ opConn' = Cur
    /\ pc' = OperationEntry(op)
    /\ UNCHANGED <<startupVars, callVars, mode, tool, flags, sqlText, catalog, args, reads, op, http, issued,
                   qstat, qval, pend, origErr, outcome>>

\* await client.connect(); on success the operation is called with client
EWC_Connect ==
    /\ pc = "ewc_connect"
    /\ \/ /\ conns' = Connected(conns, Cur)
          /\ opConn' = Cur
          /\ pc' = OperationEntry(op)
          /\ UNCHANGED <<pend, failures>>
       \/ /\ pend' = Thrown(JsError(ConnectRefused))
          /\ failures' = failures \cup
                {IF op = "guidance" THEN "guidance-connect" ELSE "connect"}
          /\ pc' = "ewc_finally"
          /\ UNCHANGED <<conns, opConn>>
    /\ UNCHANGED <<startupVars, callVars, mode, tool, flags, sqlText, catalog, args, reads, op, http, issued, qstat, qval,
                   origErr, outcome>>

\* variant: end() called at the end of the try block, not in finally
EWC_Finally_OnlyOnSuccess ==
    /\ pc = "ewc_finally"
    /\ conns' = IF pend.k = "val" THEN Ended(conns, Cur) ELSE conns
    /\ pc' = "ewc_exit"
    /\ UNCHANGED <<startupVars, callVars, mode, tool, flags, sqlText, catalog, args, reads, op, opConn, http,
                   issued, qstat, qval, pend, origErr, outcome, failures>>

\* finally { await client.end() }
EWC_Finally ==
    /\ pc = "ewc_finally"
    /\ conns' = Ended(conns, Cur)
    /\ pc' = "ewc_exit"
    /\ UNCHANGED <<startupVars, callVars, mode, tool, flags, sqlText, catalog, args, reads, op, opConn, http, issued,
                   qstat, qval, pend, origErr, outcome, failures>>

\* variant: the handlers of the session tools without their try/catch
EWC_Exit_NoCatch ==
    /\ pc = "ewc_exit"
    /\ outcome' =
         IF pend.k = "val" THEN Returned(pend.v) ELSE Rejected(pend.e)
    /\ pc' = "done"
    /\ UNCHANGED <<startupVars, callVars, mode, tool, flags, sqlText, catalog, args, reads, op, conns, opConn, http,
                   issued, qstat, qval, pend, origErr, failures>>

\* executeWithClient settles and its caller observes the completion: the
\* session tools catch the error; createEnhancedErrorResponse is called from
\* the catch block of execute-sql, where nothing catches
EWC_Exit ==
    /\ pc = "ewc_exit"
    /\ outcome' =
         IF pend.k = "val" THEN Returned(pend.v)
         ELSE IF op = "guidance" THEN Rejected(pend.e)
         ELSE Returned(createGuidedErrorResponse(pend.e, Troubleshooting))
    /\ pc' = "done"
    /\ UNCHANGED <<startupVars, callVars, mode, tool, flags, sqlText, catalog, args, reads, op, conns, opConn, http,
                   issued, qstat, qval, pend, origErr, failures>>

\* --------------------------------- createEnhancedErrorResponse: lookups
StructureGuidance(tableName, structure, msg) ==
    <<Line("hdr", <<"Table Structure for", tableName>>),
      Line("colhdr", <<"Column", "Type", "Nullable", "Default">>)>>
    \o ColumnLines(structure)
    \o (IF columnError(msg)
        THEN <<Line("missing-column",
                    <<Capture(PosColumnMissing(msg), msg, 1)>>)>>
        ELSE <<>>)

AvailableTablesGuidance(tableName, rows) ==
    <<Line("hdr", <<"Available Tables">>)>>
    \o [i \in 1..Len(rows) |-> Line("item", <<rows[i].table_name>>)]
    \o <<Line("missing-table", <<tableName>>)>>

\* the operation up to and including getTableStructure (which catches its
\* own failure and returns null)
Guid_Structure ==
    /\ pc = "op_guidance"
    /\ LET msg == ErrorMessageOf(origErr)
           tableName == extractTableFromError(msg, sqlText)
       IN  IF tableName = NULL
           THEN /\ pend' = Val(createGuidedErrorResponse(origErr,
                                                         CommonIssuesGuidance))
                /\ pc' = "ewc_finally"
                /\ UNCHANGED failures
           ELSE \/ LET structure == ColumnsNamed(catalog, tableName) IN
                     /\ UNCHANGED failures
                     /\ IF Len(structure) > 0
                        THEN /\ pend' = Val(createGuidedErrorResponse(origErr,
                                  StructureGuidance(tableName, structure, msg)))
                             /\ pc' = "ewc_finally"
                        ELSE IF relationError(msg)
                        THEN /\ pc' = "guid_tables"
                             /\ UNCHANGED pend
                        ELSE /\ pend' = Val(createGuidedErrorResponse(origErr,
                                                CommonIssuesGuidance))
                             /\ pc' = "ewc_finally"
                \/ /\ failures' = failures \cup {"lookup"}
                   /\ IF relationError(msg)
                      THEN /\ pc' = "guid_tables"
                           /\ UNCHANGED pend
                      ELSE /\ pend' = Val(createGuidedErrorResponse(origErr,
                                              CommonIssuesGuidance))
                           /\ pc' = "ewc_finally"
    /\ UNCHANGED <<startupVars, callVars, mode, tool, flags, sqlText, catalog, args, reads, op, conns, opConn, http,
                   issued, qstat, qval, origErr, outcome>>

\* the list of available tables, inside try { } catch { }
Guid_Tables ==
    /\ pc = "guid_tables"
    /\ LET msg == ErrorMessageOf(origErr)
           tableName == extractTableFromError(msg, sqlText)
       IN  \/ LET rows == catalog.tables IN
                /\ pend' = Val(createGuidedErrorResponse(origErr,
                        IF Len(rows) > 0
                        THEN AvailableTablesGuidance(tableName, rows)
                        ELSE CommonIssuesGuidance))
                /\ UNCHANGED failures
           \/ /\ pend' = Val(createGuidedErrorResponse(origErr,
                                                       CommonIssuesGuidance))
              /\ failures' = failures \cup {"lookup"}
    /\ pc' = "ewc_finally"
    /\ UNCHANGED <<startupVars, callVars, mode, tool, flags, sqlText, catalog, args, reads, op, conns, opConn, http,
                   issued, qstat, qval, origErr, outcome>>

\* ------------------------------------------------ describe-table: data
TableArg == "users"

\* the optional sub-queries in the order the handler pushes them
FlagOrder == <<"includeConstraints", "includeSampleRows",
               "includeRlsPolicies", "includeTriggers", "includeIndexes",
               "includeDependencies", "includeReferencedBy">>

FlagPos(f) == CHOOSE i \in 1..Len(FlagOrder) : FlagOrder[i] = f

\* rows of the constraints query; column_name is NULL for a table-level one
Constraint(i) ==
    IF i % 2 = 1
    THEN [constraint_name |-> "c_col", constraint_type |-> "FOREIGN KEY",
          column_name |-> ColNames[(((i - 1) \div 2) % Len(ColNames)) + 1],
          foreign_table_name |-> "orders", foreign_column_name |-> "id",
          check_clause |-> NULL]
    ELSE [constraint_name |-> "c_tab", constraint_type |-> "CHECK",
          column_name |-> NULL,
          foreign_table_name |-> NULL, foreign_column_name |-> NULL,
          check_clause |-> "price > 0"]

\* each optional sub-query answers with no row or with these rows
ConstraintResults == {<<>>, <<Constraint(1), Constraint(2)>>,
                      <<Constraint(1), Constraint(2), Constraint(3)>>}

SampleResults == {<<>>, <<ExecRow(1), ExecRow(2)>>}

Policy(i) ==
    [policy_name |-> "p_read", command |-> "r",
     using_expression |-> IF i % 2 = 1 THEN "true" ELSE NULL,
     with_check_expression |-> IF i % 2 = 1 THEN NULL ELSE "owner"]

Trigger(i) == [trigger_name |-> "t_audit", timing |-> "BEFORE",
               event |-> IF i % 2 = 1 THEN "INSERT" ELSE "UPDATE"]

Index(i) == [index_name |-> "users_pkey", is_primary |-> (i % 2 = 1),
             is_unique |-> TRUE, size |-> "16 kB"]

Dependency(i) == [object_name |-> "users", referenced_name |-> "public",
                  dependency_type_desc |-> IF i % 2 = 1 THEN "normal"
                                           ELSE "auto"]

Reference(i) == [referencing_table |-> "orders",
                 referencing_column |-> IF i % 2 = 1 THEN "user_id"
                                        ELSE "owner_id"]

RowsOf(first, second) == {<<>>, <<first, second>>}

\* structureQuery selects on table_name alone: when a second schema holds a
\* table of the same name, the columns of both tables come back (here one
\* column each, both called id)
SameNameStructure == <<Column(1), Column(1)>>

DescribeStructureResults == StructureResults \cup {SameNameStructure}

\* the results a sub-query of the given kind can produce
ResultsOfKind(kind) ==
    CASE kind = "structure" -> DescribeStructureResults
      [] kind = "includeConstraints" -> ConstraintResults
      [] kind = "includeSampleRows" -> SampleResults
      [] kind = "includeRlsPolicies" -> RowsOf(Policy(1), Policy(2))
      [] kind = "includeTriggers" -> RowsOf(Trigger(1), Trigger(2))
      [] kind = "includeIndexes" -> RowsOf(Index(1), Index(2))
      [] kind = "includeDependencies" -> RowsOf(Dependency(1), Dependency(2))
      [] kind = "includeReferencedBy" -> RowsOf(Reference(1), Reference(2))

\* variant: the sample query is pushed whatever its flag
DescribeQueries_AlwaysSample(F) ==
    <<"structure">>
    \o SelectSeq(FlagOrder, LAMBDA f : f \in F \/ f = "includeSampleRows")

\* const queries = [structure]; if (flag) queries.push(...), flag by flag
DescribeQueries(F) ==
    <<"structure">> \o SelectSeq(FlagOrder, LAMBDA f : f \in F)

\* value of queryIndex when the flag's result is read (queryIndex++)
QueryIndex(f, F) == 1 + Cardinality({g \in F : FlagPos(g) < FlagPos(f)})

\* `let xResult = null`: read only under `xResult && xResult.rows.length > 0`
\* (or `xResult ? ... : {}`), where null behaves as a result without rows
NoResult == <<>>

\* xResult = flag ? results[queryIndex++] : null   (JS indices are 0-based)
ResultFor(f, F, results) ==
    IF f \in F THEN results[QueryIndex(f, F) + 1] ELSE NoResult

\* ------------------------------------------- describe-table: rendering
RECURSIVE Flatten(_)
Flatten(seqs) ==
    IF seqs = <<>> THEN <<>> ELSE Head(seqs) \o Flatten(Tail(seqs))

\* constraintsByColumn[name] || []
ConstraintsByColumn(constraintRows, name) ==
    SelectSeq(constraintRows,
              LAMBDA c : c.column_name # NULL /\ c.column_name = name)

InlineConstraintLine(c) ==
    Line("con", <<c.constraint_type,
                  IF c.foreign_table_name # NULL /\ c.foreign_column_name # NULL
                  THEN <<c.foreign_table_name, c.foreign_column_name>>
                  ELSE <<>>>>)

\* the lines of one column: its row, then its constraints when requested
StructureLinesOf(column, F, constraintRows) ==
    <<ColumnLine(column)>>
    \o (IF "includeConstraints" \in F
        THEN LET own == ConstraintsByColumn(constraintRows,
                                            column.column_name)
             IN  [j \in 1..Len(own) |-> InlineConstraintLine(own[j])]
        ELSE <<>>)

StructureSection(F, structureRows, constraintRows) ==
    <<Line("title", <<TableArg>>),
      Line("colhdr", <<"Column", "Type", "Nullable", "Default">>)>>
    \o Flatten([i \in 1..Len(structureRows) |->
                   StructureLinesOf(structureRows[i], F, constraintRows)])

ConstraintsSection(F, rows) ==
    LET tableConstraints == SelectSeq(rows, LAMBDA c : c.column_name = NULL)
    IN  IF "includeConstraints" \in F /\ Len(rows) > 0
           /\ Len(tableConstraints) > 0
        THEN <<Line("hdr", <<"Constraints">>)>>
             \o [i \in 1..Len(tableConstraints) |->
                    Line("tcon", <<tableConstraints[i].constraint_name,
                                   tableConstraints[i].constraint_type,
                                   tableConstraints[i].check_clause>>)]
        ELSE <<>>

SampleValue(c) == IF c.t = "null" THEN "*null*"
                  ELSE IF c.t = "string" THEN c.v ELSE ToString(c.v)

\* variant: the sample section chained to the constraints section by else-if
SampleSection_ElseIf(F, rows) ==
    IF "includeConstraints" \in F THEN <<>>
    ELSE IF "includeSampleRows" \in F /\ Len(rows) > 0
    THEN <<Line("hdr", <<"Sample Data">>), Line("header", RowKeys(rows[1]))>>
         \o [i \in 1..Len(rows) |->
                Line("data", [j \in 1..Len(rows[i]) |->
                                 SampleValue(rows[i][j].val)])]
    ELSE <<>>

SampleSection(F, rows) ==
    IF "includeSampleRows" \in F /\ Len(rows) > 0
    THEN <<Line("hdr", <<"Sample Data">>), Line("header", RowKeys(rows[1]))>>
         \o [i \in 1..Len(rows) |->
                Line("data", [j \in 1..Len(rows[i]) |->
                                 SampleValue(rows[i][j].val)])]
    ELSE <<>>

PolicyLines(p) ==
    <<Line("policy", <<p.policy_name, p.command>>)>>
    \o (IF p.using_expression # NULL
        THEN <<Line("using", <<p.using_expression>>)>> ELSE <<>>)
    \o (IF p.with_check_expression # NULL
        THEN <<Line("check", <<p.with_check_expression>>)>> ELSE <<>>)

RlsSection(F, rows) ==
    LET named == SelectSeq(rows, LAMBDA p : p.policy_name # NULL)
    IN  IF "includeRlsPolicies" \in F /\ Len(rows) > 0
        THEN <<Line("hdr", <<"RLS Policies">>)>>
             \o Flatten([i \in 1..Len(named) |-> PolicyLines(named[i])])
        ELSE <<>>

TriggersSection(F, rows) ==
    LET named == SelectSeq(rows, LAMBDA t : t.trigger_name # NULL)
    IN  IF "includeTriggers" \in F /\ Len(rows) > 0
        THEN <<Line("hdr", <<"Triggers">>)>>
             \o [i \in 1..Len(named) |->
                    Line("trigger", <<named[i].trigger_name, named[i].timing,
                                      named[i].event>>)]
        ELSE <<>>

IndexFlags(x) ==
    (IF x.is_primary THEN <<"PRIMARY">> ELSE <<>>)
    \o (IF x.is_unique THEN <<"UNIQUE">> ELSE <<>>)

IndexesSection(F, rows) ==
    IF "includeIndexes" \in F /\ Len(rows) > 0
    THEN <<Line("hdr", <<"Indexes">>)>>
         \o [i \in 1..Len(rows) |->
                Line("index", <<rows[i].index_name, IndexFlags(rows[i]),
                                rows[i].size>>)]
    ELSE <<>>

DependenciesSection(F, rows) ==
    IF "includeDependencies" \in F /\ Len(rows) > 0
    THEN <<Line("hdr", <<"Dependencies">>)>>
         \o [i \in 1..Len(rows) |->
                Line("dep", <<rows[i].object_name, rows[i].referenced_name,
                              rows[i].dependency_type_desc>>)]
    ELSE <<>>

ReferencedBySection(F, rows) ==
    IF "includeReferencedBy" \in F /\ Len(rows) > 0
    THEN <<Line("hdr", <<"Referenced By">>)>>
         \o [i \in 1..Len(rows) |->
                Line("ref", <<rows[i].referencing_table,
                              rows[i].referencing_column>>)]
    ELSE <<>>

\* variant: the triggers section rendered before the RLS policies section
DescribeMarkdown_Swapped(F, results) ==
    StructureSection(F, results[1],
                     ResultFor("includeConstraints", F, results))
    \o ConstraintsSection(F, ResultFor("includeConstraints", F, results))
    \o SampleSection(F, ResultFor("includeSampleRows", F, results))
    \o TriggersSection(F, ResultFor("includeTriggers", F, results))
    \o RlsSection(F, ResultFor("includeRlsPolicies", F, results))
    \o IndexesSection(F, ResultFor("includeIndexes", F, results))
    \o DependenciesSection(F, ResultFor("includeDependencies", F, results))
    \o ReferencedBySection(F, ResultFor("includeReferencedBy", F, results))

\* the operation after `await Promise.all(queries)`: pick each result by
\* queryIndex, then build the markdown section by section
DescribeMarkdown(F, results) ==
    LET structureResult == results[1]
        constraintsResult == ResultFor("includeConstraints", F, results)
        sampleResult == ResultFor("includeSampleRows", F, results)
        rlsPoliciesResult == ResultFor("includeRlsPolicies", F, results)
        triggersResult == ResultFor("includeTriggers", F, results)
        indexesResult == ResultFor("includeIndexes", F, results)
        dependenciesResult == ResultFor("includeDependencies", F, results)
        referencedByResult == ResultFor("includeReferencedBy", F, results)
    IN  StructureSection(F, structureResult, constraintsResult)
        \o ConstraintsSection(F, constraintsResult)
        \o SampleSection(F, sampleResult)
        \o RlsSection(F, rlsPoliciesResult)
        \o TriggersSection(F, triggersResult)
        \o IndexesSection(F, indexesResult)
        \o DependenciesSection(F, dependenciesResult)
        \o ReferencedBySection(F, referencedByResult)

\* ----------------------------------------------- describe-table: steps
SubQueryErrors == {PermissionDenied}

AllInflight(n) == [i \in 1..n |-> "inflight"]
NoValues(n) == [i \in 1..n |-> NoResult]

\* variant: the structure query awaited before the optional queries are
\* issued
Desc_Issue_StructureFirst ==
    /\ pc = "op_describe"
    /\ issued' = DescribeQueries(flags)
    /\ \E r \in DescribeStructureResults :
        /\ qstat' = [AllInflight(Len(DescribeQueries(flags)))
                        EXCEPT ![1] = "ok"]
        /\ qval' = [NoValues(Len(DescribeQueries(flags))) EXCEPT ![1] = r]
    /\ pc' = IF flags = {} THEN "desc_render" ELSE "desc_await"
    /\ UNCHANGED <<startupVars, callVars, mode, tool, flags, sqlText, catalog, args, reads, op, conns, opConn, http, pend,
                   origErr, outcome, failures>>

\* every client.query(...) call of the operation, made before any await
Desc_Issue ==
    /\ pc = "op_describe"
    /\ issued' = DescribeQueries(flags)
    /\ qstat' = AllInflight(Len(DescribeQueries(flags)))
    /\ qval' = NoValues(Len(DescribeQueries(flags)))
    /\ pc' = "desc_await"
    /\ UNCHANGED <<startupVars, callVars, mode, tool, flags, sqlText, catalog, args, reads, op, conns, opConn, http, pend,
                   origErr, outcome, failures>>

\* variant: Promise.allSettled-like join, a failed sub-query counts as an
\* empty result
Desc_Settle_Tolerant ==
    /\ pc = "desc_await"
    /\ \E i \in 1..Len(issued) :
        /\ qstat[i] = "inflight"
        /\ \/ \E r \in ResultsOfKind(issued[i]) :
                /\ qstat' = [qstat EXCEPT ![i] = "ok"]
                /\ qval' = [qval EXCEPT ![i] = r]
                /\ UNCHANGED failures
           \/ /\ qstat' = [qstat EXCEPT ![i] = "failed"]
              /\ qval' = [qval EXCEPT ![i] = NoResult]
              /\ failures' = failures \cup {"sql"}
        /\ pc' = IF \A j \in 1..Len(issued) : qstat'[j] # "inflight"
                 THEN "desc_render" ELSE "desc_await"
    /\ UNCHANGED <<startupVars, callVars, mode, tool, flags, sqlText, catalog, args, reads, op, conns, opConn,
                   http, issued, pend, origErr, outcome>>

\* one sub-query settles while Promise.all is pending; the first rejection
\* rejects Promise.all, the last fulfilment fulfils it
Desc_Settle ==
    /\ pc = "desc_await"
    /\ \E i \in 1..Len(issued) :
        /\ qstat[i] = "inflight"
        /\ \/ \E r \in ResultsOfKind(issued[i]) :
                /\ qstat' = [qstat EXCEPT ![i] = "ok"]
                /\ qval' = [qval EXCEPT ![i] = r]
                /\ pc' = IF \A j \in 1..Len(issued) : qstat'[j] = "ok"
                         THEN "desc_render" ELSE "desc_await"
                /\ UNCHANGED <<pend, failures>>
           \/ \E m \in SubQueryErrors :
                /\ qstat' = [qstat EXCEPT ![i] = "failed"]
                /\ qval' = NoValues(Len(issued))
                /\ pend' = Thrown(JsError(m))
                /\ failures' = failures \cup {"sql"}
                /\ pc' = "ewc_finally"
    /\ UNCHANGED <<startupVars, callVars, mode, tool, flags, sqlText, catalog, args, reads, op, conns, opConn, http,
                   issued, origErr, outcome>>

Desc_Render ==
    /\ pc = "desc_render"
    /\ pend' = Val(createMarkdownResponse(DescribeMarkdown(flags, qval)))
    /\ pc' = "ewc_finally"
    /\ UNCHANGED <<startupVars, callVars, mode, tool, flags, sqlText, catalog, args, reads, op, conns, opConn, http,
                   issued, qstat, qval, origErr, outcome, failures>>

\* ------------------------------------------------------------ list-tables
\* rows of the table-list query
ListedTable(i) == [table_name |-> TableNames[i], column_count |-> i + 1]

TableRowsResults == {[i \in 1..n |-> ListedTable(i)] : n \in 0..MaxTables}

\* COUNT(*) arrives as a bigint, which pg delivers as a decimal string
CountStrings == {"7", "1234"}

\* parseInt of a decimal string
parseInt(s) ==
    CASE s = "7" -> 7
      [] s = "1234" -> 1234
      [] OTHER -> 0

Pad3(n) == IF n < 10 THEN "00" \o ToString(n)
           ELSE IF n < 100 THEN "0" \o ToString(n)
           ELSE ToString(n)

\* Number.prototype.toLocaleString(): digits in groups of three
RECURSIVE toLocaleString(_)
toLocaleString(n) ==
    IF n < 1000 THEN ToString(n)
    ELSE toLocaleString(n \div 1000) \o "," \o Pad3(n % 1000)

NoRowCount == -1

\* what the map callback keeps of one COUNT query: the row_count it
\* computed (with the string the database sent), or null after a failure
CountResult(s) == [sent |-> s, row_count |-> parseInt(s)]
NoCountResult == [sent |-> NULL, row_count |-> NoRowCount]

\* variant: a failed table-list query taken as an empty list
List_Tables_SwallowsFailure ==
    /\ pc = "op_list"
    /\ \/ \E rows \in TableRowsResults :
            /\ issued' = rows
            /\ qstat' = AllInflight(Len(rows))
            /\ qval' = [i \in 1..Len(rows) |-> NoCountResult]
            /\ pc' = IF Len(rows) = 0 THEN "list_render" ELSE "list_await"
            /\ UNCHANGED <<pend, failures>>
       \/ \E m \in SubQueryErrors :
            /\ failures' = failures \cup {"sql"}
            /\ pc' = "list_render"
            /\ UNCHANGED <<issued, qstat, qval, pend>>
    /\ UNCHANGED <<startupVars, callVars, mode, tool, flags, sqlText, catalog, args, reads, op, conns, opConn,
                   http, origErr, outcome>>

\* await client.query(tablesQuery); then one COUNT query per listed table
List_Tables ==
    /\ pc = "op_list"
    /\ \/ \E rows \in TableRowsResults :
            /\ issued' = rows
            /\ qstat' = AllInflight(Len(rows))
            /\ qval' = [i \in 1..Len(rows) |-> NoCountResult]
            /\ pc' = IF Len(rows) = 0 THEN "list_render" ELSE "list_await"
            /\ UNCHANGED <<pend, failures>>
       \/ \E m \in SubQueryErrors :
            /\ pend' = Thrown(JsError(m))
            /\ failures' = failures \cup {"sql"}
            /\ pc' = "ewc_finally"
            /\ UNCHANGED <<issued, qstat, qval>>
    /\ UNCHANGED <<startupVars, callVars, mode, tool, flags, sqlText, catalog, args, reads, op, conns, opConn,
                   http, origErr, outcome>>

\* variant: no try/catch around the COUNT query inside the map callback
List_CountSettle_NoCatch ==
    /\ pc = "list_await"
    /\ \E i \in 1..Len(issued) :
        /\ qstat[i] = "inflight"
        /\ \/ \E s \in CountStrings :
                /\ qstat' = [qstat EXCEPT ![i] = "ok"]
                /\ qval' = [qval EXCEPT ![i] = CountResult(s)]
                /\ pc' = IF \A j \in 1..Len(issued) : qstat'[j] # "inflight"
                         THEN "list_render" ELSE "list_await"
                /\ UNCHANGED <<pend, failures>>
           \/ /\ qstat' = [qstat EXCEPT ![i] = "failed"]
              /\ qval' = [qval EXCEPT ![i] = NoCountResult]
              /\ pend' = Thrown(JsError(PermissionDenied))
              /\ failures' = failures \cup {"count"}
              /\ pc' = "ewc_finally"
    /\ UNCHANGED <<startupVars, callVars, mode, tool, flags, sqlText, catalog, args, reads, op, conns, opConn,
                   http, issued, origErr, outcome>>

\* one COUNT query settles; its failure is caught inside the map callback
List_CountSettle ==
    /\ pc = "list_await"
    /\ \E i \in 1..Len(issued) :
        /\ qstat[i] = "inflight"
        /\ \/ \E s \in CountStrings :
                /\ qstat' = [qstat EXCEPT ![i] = "ok"]
                /\ qval' = [qval EXCEPT ![i] = CountResult(s)]
                /\ UNCHANGED failures
           \/ /\ qstat' = [qstat EXCEPT ![i] = "failed"]
              /\ qval' = [qval EXCEPT ![i] = NoCountResult]
              /\ failures' = failures \cup {"count"}
        /\ pc' = IF \A j \in 1..Len(issued) : qstat'[j] # "inflight"
                 THEN "list_render" ELSE "list_await"
    /\ UNCHANGED <<startupVars, callVars, mode, tool, flags, sqlText, catalog, args, reads, op, conns, opConn,
                   http, issued, pend, origErr, outcome>>

TableLine(table, row_count) ==
    Line("table", <<table.table_name, ToString(table.column_count),
                    IF row_count # NoRowCount THEN toLocaleString(row_count)
                    ELSE "Error">>)

ListMarkdown(tables, tablesWithRowCounts) ==
    <<Line("title", <<"Tables in", "public">>),
      Line("colhdr", <<"Table", "Columns", "Rows">>)>>
    \o [i \in 1..Len(tables) |-> TableLine(tables[i],
                                           tablesWithRowCounts[i].row_count)]
    \o <<Line("total", <<Len(tables)>>)>>

List_Render ==
    /\ pc = "list_render"
    /\ pend' = Val(createMarkdownResponse(ListMarkdown(issued, qval)))
    /\ pc' = "ewc_finally"
    /\ UNCHANGED <<startupVars, callVars, mode, tool, flags, sqlText, catalog, args, reads, op, conns, opConn,
                   http, issued, qstat, qval, origErr, outcome, failures>>

\* ------------------------------ describe-functions, get-function-definition
FunctionRow(i) == [function_name |-> "fn", function_kind |-> "f",
                   arguments |-> IF i % 2 = 1 THEN "a integer" ELSE NULL]

FunctionResults == RowsOf(FunctionRow(1), FunctionRow(2))

FunctionsMarkdown(rows) ==
    <<Line("title", <<"Functions in", "public">>)>>
    \o (IF Len(rows) = 0
        THEN <<Line("text", <<"No functions found in schema">>)>>
        ELSE [i \in 1..Len(rows) |->
                 Line("function", <<rows[i].function_name, rows[i].arguments,
                                    "Function">>)]
             \o <<Line("total", <<Len(rows)>>)>>)

Func_Query ==
    /\ pc = "op_functions"
    /\ \/ \E rows \in FunctionResults :
            /\ pend' = Val(createMarkdownResponse(FunctionsMarkdown(rows)))
            /\ UNCHANGED failures
       \/ \E m \in SubQueryErrors :
            /\ pend' = Thrown(JsError(m))
            /\ failures' = failures \cup {"sql"}
    /\ pc' = "ewc_finally"
    /\ UNCHANGED <<startupVars, callVars, mode, tool, flags, sqlText, catalog, args, reads, op, conns, opConn,
                   http, issued, qstat, qval, origErr, outcome>>

FunctionNotFound ==
    <<W("Function"), Q("fn"), W("not"), W("found"), W("in"), W("schema"),
      Q("public")>>

DefinitionMarkdown(func) ==
    <<Line("title", <<"Function:", func.function_name>>),
      Line("hdr", <<"Signature">>), Line("hdr", <<"Properties">>),
      Line("hdr", <<"Definition">>)>>

\* variant: no `rowCount === 0` test, rows[0] is rendered unconditionally
GetFn_Query_NoEmptyCheck ==
    /\ pc = "op_getfn"
    /\ issued' = <<"function">>
    /\ \/ \E rows \in FunctionResults :
            /\ pend' = IF Len(rows) = 0
                       THEN Thrown(JsError(<<W("Cannot"), W("read"),
                                             W("properties"), W("of"),
                                             W("undefined")>>))
                       ELSE Val(createMarkdownResponse(
                                    DefinitionMarkdown(rows[1])))
            /\ qstat' = <<"ok">>
            /\ qval' = <<rows>>
            /\ UNCHANGED failures
       \/ \E m \in SubQueryErrors :
            /\ pend' = Thrown(JsError(m))
            /\ qstat' = <<"failed">>
            /\ qval' = <<NoResult>>
            /\ failures' = failures \cup {"sql"}
    /\ pc' = "ewc_finally"
    /\ UNCHANGED <<startupVars, callVars, mode, tool, flags, sqlText, catalog, args, reads, op, conns, opConn,
                   http, origErr, outcome>>

\* the operation of get-function-definition: one query, then the
\* not-found result or the rendering of rows[0]
GetFn_Query ==
    /\ pc = "op_getfn"
    /\ issued' = <<"function">>
    /\ \/ \E rows \in FunctionResults :
            /\ pend' = IF Len(rows) = 0
                       THEN Val(createErrorResponse(JsString(FunctionNotFound)))
                       ELSE Val(createMarkdownResponse(
                                    DefinitionMarkdown(rows[1])))
            /\ qstat' = <<"ok">>
            /\ qval' = <<rows>>
            /\ UNCHANGED failures
       \/ \E m \in SubQueryErrors :
            /\ pend' = Thrown(JsError(m))
            /\ qstat' = <<"failed">>
            /\ qval' = <<NoResult>>
            /\ failures' = failures \cup {"sql"}
    /\ pc' = "ewc_finally"
    /\ UNCHANGED <<startupVars, callVars, mode, tool, flags, sqlText, catalog, args, reads, op, conns, opConn,
                   http, origErr, outcome>>

\* ------------------------------------------------------------ storage tools
\* variant: the test for both arguments given at once is missing
Upload_Prepare_NoBothCheck ==
    /\ pc = "upload"
    /\ IF ~Truthy(args.fileContent) /\ ~Truthy(args.localFilePath)
       THEN /\ outcome' = Returned(createErrorResponse(JsObject(400,
                              <<W("Either"), W("fileContent"), W("or"),
                                W("localFilePath"), W("must"), W("be"),
                                W("provided")>>)))
            /\ pc' = "done"
            /\ UNCHANGED <<reads, failures>>
       ELSE IF Truthy(args.localFilePath)
       THEN \/ /\ reads' = reads + 1          \* existsSync: no such file
               /\ outcome' = Returned(createErrorResponse(JsObject(404,
                                 <<W("File"), W("not"), W("found")>>)))
               /\ pc' = "done"
               /\ failures' = failures \cup {"file"}
            \/ /\ reads' = reads + 2          \* readFileSync throws
               /\ outcome' = Returned(createErrorResponse(JsObject(500,
                                 <<W("Failed"), W("to"), W("read"), W("file")>>)))
               /\ pc' = "done"
               /\ failures' = failures \cup {"file"}
            \/ /\ reads' = reads + 2
               /\ pc' = "fetch"
               /\ UNCHANGED <<outcome, failures>>
       ELSE /\ pc' = "fetch"
            /\ UNCHANGED <<reads, outcome, failures>>
    /\ UNCHANGED <<startupVars, callVars, mode, tool, flags, sqlText, catalog, args, op, conns, opConn, http,
                   issued, qstat, qval, pend, origErr>>

\* upload-file before its request: argument validation, local file access
Upload_Prepare ==
    /\ pc = "upload"
    /\ IF ~Truthy(args.fileContent) /\ ~Truthy(args.localFilePath)
       THEN /\ outcome' = Returned(createErrorResponse(JsObject(400,
                              <<W("Either"), W("fileContent"), W("or"),
                                W("localFilePath"), W("must"), W("be"),
                                W("provided")>>)))
            /\ pc' = "done"
            /\ UNCHANGED <<reads, failures>>
       ELSE IF Truthy(args.fileContent) /\ Truthy(args.localFilePath)
       THEN /\ outcome' = Returned(createErrorResponse(JsObject(400,
                              <<W("Cannot"), W("provide"), W("both")>>)))
            /\ pc' = "done"
            /\ UNCHANGED <<reads, failures>>
       ELSE IF Truthy(args.localFilePath)
       THEN \/ /\ reads' = reads + 1          \* existsSync: no such file
               /\ outcome' = Returned(createErrorResponse(JsObject(404,
                                 <<W("File"), W("not"), W("found")>>)))
               /\ pc' = "done"
               /\ failures' = failures \cup {"file"}
            \/ /\ reads' = reads + 2          \* readFileSync throws
               /\ outcome' = Returned(createErrorResponse(JsObject(500,
                                 <<W("Failed"), W("to"), W("read"), W("file")>>)))
               /\ pc' = "done"
               /\ failures' = failures \cup {"file"}
            \/ /\ reads' = reads + 2
               /\ pc' = "fetch"
               /\ UNCHANGED <<outcome, failures>>
       ELSE /\ pc' = "fetch"
            /\ UNCHANGED <<reads, outcome, failures>>
    /\ UNCHANGED <<startupVars, callVars, mode, tool, flags, sqlText, catalog, args, op, conns, opConn, http,
                   issued, qstat, qval, pend, origErr>>

StorageStatuses == {400, 404}
StorageMessages == {<<W("Object"), W("not"), W("found")>>}

\* the single request of a storage tool and the handling of its answer
Storage_Fetch ==
    /\ pc = "fetch"
    /\ http' = http + 1
    /\ \/ /\ outcome' = Returned(createMarkdownResponse(
                            <<Line("hdr", <<tool>>)>>))
          /\ UNCHANGED failures
       \/ \E st \in StorageStatuses, m \in StorageMessages :
            /\ outcome' = Returned(createErrorResponse(JsObject(st, m)))
            /\ failures' = failures \cup {"http"}
       \/ /\ outcome' = Returned(createErrorResponse(JsError(
                            <<W("fetch"), W("failed")>>)))
          /\ failures' = failures \cup {"network"}
    /\ pc' = "done"
    /\ UNCHANGED <<startupVars, callVars, mode, tool, flags, sqlText, catalog, args, reads, op, conns, opConn,
                   issued, qstat, qval, pend, origErr>>

\* ------------------------------------------------------------------ Next
Next ==
    \/ Invoke
    \/ Query \/ QP_Connect \/ QP_Query \/ QP_Finally \/ Api_Post
    \/ ExecSql_Settled
    \/ EWC_Enter \/ EWC_Connect \/ EWC_Finally \/ EWC_Exit
    \/ Guid_Structure \/ Guid_Tables
    \/ Desc_Issue \/ Desc_Settle \/ Desc_Render
    \/ List_Tables \/ List_CountSettle \/ List_Render
    \/ Func_Query \/ GetFn_Query
    \/ Upload_Prepare \/ Storage_Fetch

Spec == Init /\ [][Next]_vars

\* ------------------------------------------------------------ entry point
\* the three tests of the required settings; a throw ends the process
Boot_CheckEnv ==
    /\ bootPc = "check"
    /\ IF ~Truthy(env.SUPABASE_CONNECTION_STRING)
       THEN /\ bootError' = NotSet("SUPABASE_CONNECTION_STRING")
            /\ bootPc' = "exited"
       ELSE IF ~Truthy(env.SUPABASE_URL)
       THEN /\ bootError' = NotSet("SUPABASE_URL")
            /\ bootPc' = "exited"
       ELSE IF ~Truthy(env.SUPABASE_SERVICE_KEY)
       THEN /\ bootError' = NotSet("SUPABASE_SERVICE_KEY")
            /\ bootPc' = "exited"
       ELSE /\ bootPc' = "register"
            /\ UNCHANGED bootError
    /\ UNCHANGED <<handlerVars, callVars, env, toolIdx, registered, built>>

\* one registration block: if (isToolEnabled(name)) server.tool(name, ...)
Boot_Register ==
    /\ bootPc = "register"
    /\ toolIdx <= Len(ToolOrder)
    /\ registered' = IF isToolEnabled(env, ToolOrder[toolIdx])
                     THEN Append(registered, ToolOrder[toolIdx])
                     ELSE registered
    /\ toolIdx' = toolIdx + 1
    /\ UNCHANGED <<handlerVars, callVars, env, bootPc, bootError, built>>

\* main(): server.connect(transport), or process.exit(1) when it fails
Boot_Main ==
    /\ bootPc = "register"
    /\ toolIdx > Len(ToolOrder)
    /\ \/ /\ bootPc' = "serving"
          /\ UNCHANGED bootError
       \/ /\ bootPc' = "exited"
          /\ bootError' = <<W("Error"), W("starting"), W("server")>>
    /\ UNCHANGED <<handlerVars, callVars, env, toolIdx, registered, built>>

\* a call of createDatabaseClientFromEnv with the same environment
Config_CreateClient ==
    /\ built = NoPend
    /\ built' = createDatabaseClientFromEnv(env)
    /\ UNCHANGED <<handlerVars, callVars, env, bootPc, bootError, toolIdx, registered>>

\* the process is started with an arbitrary environment
ConfigInit ==
    /\ env \in Envs
    /\ bootPc = "check"
    /\ bootError = <<>>
    /\ toolIdx = 1
    /\ registered = <<>>
    /\ built = NoPend
    /\ HandlerInit
    /\ calls = NoCalls
    /\ clients = <<>>
    /\ dbState = "s"

ConfigNext ==
    \/ Boot_CheckEnv \/ Boot_Register \/ Boot_Main
    \/ Config_CreateClient

ConfigSpec == ConfigInit /\ [][ConfigNext]_vars

\* ------------------------------------------------ concurrent invocations
\* variant: a pooled client is reused when one is open
Conc_Start_Pooled(i) ==
    /\ calls[i].pc = "idle"
    /\ \E kind \in CallKinds, arg \in CallArgs :
        LET open == {k \in 1..Len(clients) : clients[k].st = "open"}
            left == IF kind = "query" THEN 1 ELSE 2
        IN  IF open = {}
            THEN /\ clients' = Append(clients, OwnedClient(i))
                 /\ calls' = [calls EXCEPT ![i] =
                        [NoCall EXCEPT !.pc = "connect", !.kind = kind,
                                       !.arg = arg, !.left = left,
                                       !.client = Len(clients) + 1]]
            ELSE /\ clients' = clients
                 /\ calls' = [calls EXCEPT ![i] =
                        [NoCall EXCEPT !.pc = "run", !.kind = kind,
                                       !.arg = arg, !.left = left,
                                       !.client = Min(open)]]
    /\ UNCHANGED <<handlerVars, startupVars, dbState>>

\* query() / executeWithClient(): const client = new Client(...)
Conc_Start(i) ==
    /\ calls[i].pc = "idle"
    /\ \E kind \in CallKinds, arg \in CallArgs :
        LET left == IF kind = "query" THEN 1 ELSE 2
        IN  /\ clients' = Append(clients, OwnedClient(i))
            /\ calls' = [calls EXCEPT ![i] =
                   [NoCall EXCEPT !.pc = "connect", !.kind = kind,
                                  !.arg = arg, !.left = left,
                                  !.client = Len(clients) + 1]]
    /\ UNCHANGED <<handlerVars, startupVars, dbState>>

\* await client.connect()
Conc_Connect(i) ==
    /\ calls[i].pc = "connect"
    /\ \/ /\ clients' = [clients EXCEPT ![calls[i].client].st = "open"]
          /\ calls' = [calls EXCEPT ![i].pc = "run"]
       \/ /\ calls' = [calls EXCEPT ![i].pc = "finally",
                                     ![i].pend = Thrown(JsError(ConnectRefused)),
                                     ![i].failures = @ \cup {"connect"}]
          /\ UNCHANGED clients
    /\ UNCHANGED <<handlerVars, startupVars, dbState>>

\* await client.query(...): a statement on a client that is not open fails
Conc_Query(i) ==
    /\ calls[i].pc = "run"
    /\ IF clients[calls[i].client].st # "open"
       THEN calls' = [calls EXCEPT ![i].pc = "finally",
                        ![i].pend = Thrown(JsError(<<W("Client"), W("was"),
                                                     W("closed")>>))]
       ELSE \/ calls' = [calls EXCEPT
                    ![i].left = @ - 1,
                    ![i].pc = IF calls[i].left = 1 THEN "finally" ELSE "run",
                    ![i].pend = IF calls[i].left = 1
                                THEN Val(createMarkdownResponse(
                                         Answer(calls[i].arg, dbState)))
                                ELSE NoPend]
            \/ calls' = [calls EXCEPT ![i].pc = "finally",
                            ![i].pend = Thrown(JsError(PermissionDenied)),
                            ![i].failures = @ \cup {"sql"}]
    /\ UNCHANGED <<handlerVars, startupVars, clients, dbState>>

\* finally { await client.end() }
Conc_Finally(i) ==
    /\ calls[i].pc = "finally"
    /\ clients' = [clients EXCEPT ![calls[i].client].st = "ended",
                                  ![calls[i].client].ends = @ + 1]
    /\ calls' = [calls EXCEPT ![i].pc = "exit"]
    /\ UNCHANGED <<handlerVars, startupVars, dbState>>

\* the handler returns the result, or the error payload of its catch block
Conc_Exit(i) ==
    /\ calls[i].pc = "exit"
    /\ calls' = [calls EXCEPT
           ![i].pc = "done",
           ![i].pend = NoPend,
           ![i].outcome =
               IF calls[i].pend.k = "val" THEN Returned(calls[i].pend.v)
               ELSE Returned(createGuidedErrorResponse(calls[i].pend.e,
                                                       Troubleshooting))]
    /\ UNCHANGED <<handlerVars, startupVars, clients, dbState>>

ConcurrentInit ==
    /\ env = ServingEnv
    /\ bootPc = "serving"
    /\ bootError = <<>>
    /\ toolIdx = Len(ToolOrder) + 1
    /\ registered = ToolOrder
    /\ built = NoPend
    /\ HandlerInit
    /\ mode = "postgres"
    /\ calls = NoCalls
    /\ clients = <<>>
    /\ dbState \in DbStates

ConcurrentNext ==
    \E i \in Invocations :
        \/ Conc_Start(i) \/ Conc_Connect(i) \/ Conc_Query(i)
        \/ Conc_Finally(i) \/ Conc_Exit(i)

ConcurrentSpec == ConcurrentInit /\ [][ConcurrentNext]_vars

\* ------------------------------------------------------------ type check
TypeOK ==
    /\ mode \in Modes
    /\ tool \in Tools \cup {""}
    /\ flags \subseteq Flags
    /\ catalog \in Catalogs
    /\ http \in 0..1
    /\ outcome.kind \in {"none", "returned", "thrown"}
    /\ (pc = "done") = (outcome.kind # "none")
    /\ env \in Envs
    /\ bootPc \in {"check", "register", "serving", "exited"}
    /\ toolIdx \in 1..(Len(ToolOrder) + 1)
    /\ built.k \in {"none", "val", "err"}

\* =================================================================== claims
Done == pc = "done"

Payload == outcome.payload

\* the invocation went through DatabaseClient.query in direct mode
DirectQueryCall == tool = "execute-sql" /\ mode = "postgres"

\* positions inside the operation handed to executeWithClient
OperationPcs == {"op_describe", "desc_await", "desc_render", "op_list",
                 "list_await", "list_render", "op_functions", "op_getfn",
                 "op_guidance", "guid_tables"}

\* clients that exist before executeWithClient is entered (direct mode)
ClientsBeforeSession == IF op = "guidance" THEN 1 ELSE 0

\* C1: every handler invocation ends by returning a payload, never by
\* throwing (a rejected promise), and after a collaborator failure (other
\* than a per-table count failure, which list-tables absorbs) the payload
\* carries error: true and a message.
C1_AlwaysReturnsErrorPayload ==
    Done =>
        /\ outcome.kind = "returned"
        /\ (failures \ {"count"} # {} =>
                Payload.error = TRUE /\ Len(Payload.message) > 0)

\* C2: in direct mode a call of query() creates exactly one client and has
\* called end() on it exactly once when the call completes, whether connect
\* failed, the statement failed or the statement succeeded; the client is
\* not open afterwards, and end() is never called twice.
C2_QueryClosesItsConnection ==
    DirectQueryCall =>
        /\ (pc \in {"qp_connect", "qp_query", "qp_finally"} =>
                Len(conns) = 1 /\ conns[1].ends = 0)
        /\ (pc = "q_settled" =>
                /\ Len(conns) = 1
                /\ conns[1].ends = 1
                /\ conns[1].st = "ended"
                /\ pend.k \in {"val", "err"})
        /\ (Len(conns) >= 1 => conns[1].ends <= 1)
        /\ (pc \in {"q_settled", "ewc", "done"} => 1 \notin OpenConns)

C2_Witness ==
    /\ DirectQueryCall
    /\ pc = "q_settled"
    /\ pend.k = "err"
    /\ "connect" \in failures
    /\ conns[1].ends = 1

\* C3: in direct mode executeWithClient creates exactly one client; the
\* operation runs only with that client, while it is open and before end()
\* has been called; end() has been called exactly once when the caller
\* observes the completion; and the completion the caller observes is the
\* one the operation produced (end() does not alter it).
C3_SessionState ==
    (mode = "postgres" /\ op # "") =>
        /\ (pc \in OperationPcs =>
                /\ Len(conns) = ClientsBeforeSession + 1
                /\ opConn = Cur
                /\ conns[Cur].st = "open"
                /\ conns[Cur].ends = 0)
        /\ (pc = "ewc_finally" =>
                /\ conns[Cur].ends = 0
                /\ pend.k \in {"val", "err"}
                /\ (opConn = 0 <=> "connect" \in failures
                                   \/ "guidance-connect" \in failures))
        /\ (pc \in {"ewc_exit", "done"} =>
                /\ Len(conns) = ClientsBeforeSession + 1
                /\ opConn \in {0, Cur}
                /\ conns[Cur].ends = 1
                /\ conns[Cur].st = "ended")

C3_SessionClosesOnce ==
    /\ []C3_SessionState
    /\ [][(pc = "ewc_finally" /\ mode = "postgres") =>
            (pend' = pend /\ pc' = "ewc_exit")]_vars
    /\ [][(pc = "ewc_exit" /\ mode = "postgres") =>
            IF pend.k = "val" THEN outcome' = Returned(pend.v)
            ELSE IF op = "guidance" THEN outcome' = Rejected(pend.e)
            ELSE outcome'.payload.message = pend.e.message]_vars

C3_Witness ==
    /\ mode = "postgres"
    /\ op = "describe-table"
    /\ pc = "ewc_exit"
    /\ opConn = 1
    /\ pend.k = "err"
    /\ conns[1].ends = 1

\* C4: in management-api mode executeWithClient fails at once with an
\* error: no client is ever created, the operation is never invoked, no
\* query is issued and it sends no HTTP request of its own.
C4_RemoteSessionFailsFast ==
    (mode = "management-api" /\ op # "") =>
        /\ pc \in {"ewc", "ewc_exit", "done"}
        /\ conns = <<>>
        /\ opConn = 0
        /\ issued = <<>>
        /\ http = (IF op = "guidance" THEN 1 ELSE 0)
        /\ (pc = "ewc_exit" => pend = Thrown(JsError(RequiresPostgresMsg)))

C4_Witness ==
    /\ mode = "management-api"
    /\ op = "list-tables"
    /\ pc = "ewc_exit"
    /\ pend.k = "err"

\* C5 (as stated): every invocation acquires at most one connection over
\* its whole run, at most one is open at any moment, none is open when the
\* handler has ended.
C5_AtMostOneConnection ==
    /\ Len(conns) <= 1
    /\ Cardinality(OpenConns) <= 1
    /\ (Done => OpenConns = {})

\* C5 (amended): an invocation acquires at most one connection, except an
\* execute-sql invocation in direct mode whose query failed with a column /
\* relation error: it acquires a second one for the guidance lookup, after
\* the first has been closed; at most one connection is open at any moment
\* and none is open when the handler has ended.
C5_ConnectionsSequential ==
    /\ Len(conns) <= (IF DirectQueryCall /\ op = "guidance" THEN 2 ELSE 1)
    /\ (Len(conns) = 2 => conns[1].st = "ended")
    /\ Cardinality(OpenConns) <= 1
    /\ (Done => OpenConns = {})

C5_Witness ==
    /\ Done
    /\ tool = "execute-sql"
    /\ Len(conns) = 2
    /\ conns[2].st = "ended"
    /\ outcome.kind = "returned"

\* --------------------------------------------------- list-tables claims
ListCall == tool = "list-tables" /\ mode = "postgres"

\* the text a count is expected to be shown as
ExpectedCountText(sent) ==
    CASE sent = "7" -> "7"
      [] sent = "1234" -> "1,234"

\* C7: once the table-list query has succeeded, whatever subset of the
\* COUNT queries fails, list-tables returns a success listing with one row
\* per listed table in list order; a row shows the error marker exactly
\* when its own COUNT query failed and the table's own count otherwise; the
\* total is the number of listed tables.
C7_PartialCountFailure ==
    (ListCall /\ Done /\ opConn # 0 /\ "sql" \notin failures) =>
        /\ outcome.kind = "returned"
        /\ Payload.error = FALSE
        /\ LET md == Payload.markdown
           IN  /\ Len(md) = Len(issued) + 3
               /\ \A i \in 1..Len(issued) :
                     /\ md[2 + i].tag = "table"
                     /\ md[2 + i].cells[1] = issued[i].table_name
                     /\ (md[2 + i].cells[3] = "Error") = (qstat[i] = "failed")
                     /\ (qstat[i] = "ok" =>
                            md[2 + i].cells[3]
                                = ExpectedCountText(qval[i].sent))
               /\ md[Len(md)] = Line("total", <<Len(issued)>>)

C7_Witness ==
    /\ ListCall
    /\ Done
    /\ Len(issued) = MaxTables
    /\ qstat[1] = "failed"
    /\ qstat[MaxTables] = "ok"
    /\ qval[MaxTables].sent = "1234"
    /\ ~Payload.error

\* ----------------------------------------------- describe-table claims
DescribeCall == tool = "describe-table" /\ mode = "postgres"

DescribeSucceeded ==
    DescribeCall /\ Done /\ outcome.kind = "returned" /\ ~Payload.error

\* heading printed for each optional section, in the documented order
SectionTitles == <<"Constraints", "Sample Data", "RLS Policies", "Triggers",
                   "Indexes", "Dependencies", "Referenced By">>

TitleOf(f) == SectionTitles[FlagPos(f)]

HeaderPositions(md) == {i \in 1..Len(md) : md[i].tag = "hdr"}

\* the lines of the section with the given heading (heading included), up
\* to the next heading; empty when the heading is absent
SectionOf(md, title) ==
    LET heads == HeaderPositions(md)
        starts == {i \in heads : md[i].cells = <<title>>}
    IN  IF starts = {} THEN <<>>
        ELSE LET s == Min(starts)
                 later == {i \in heads : i > s}
                 e == IF later = {} THEN Len(md) ELSE Min(later) - 1
             IN  SubSeq(md, s, e)

\* the structure section: everything before the first heading
StructureOf(md) ==
    LET heads == HeaderPositions(md)
    IN  IF heads = {} THEN md ELSE SubSeq(md, 1, Min(heads) - 1)

ColumnRowsOf(md) == SelectSeq(StructureOf(md), LAMBDA l : l.tag = "col")

\* the response the handler gives for flag set G on the same query results
\* (G within the flags of the invocation, whose results are at hand)
ResultsUnder(G) ==
    [i \in 1..Len(DescribeQueries(G)) |->
        IF i = 1 THEN qval[1]
        ELSE ResultFor(DescribeQueries(G)[i], flags, qval)]

MarkdownUnder(G) == DescribeMarkdown(G, ResultsUnder(G))

\* C6: when a sub-query of describe-table fails, the invocation returns the
\* guided error payload (error: true, the failing query's message, the
\* troubleshooting guidance) and nothing of the sub-queries that succeeded:
\* no markdown at all.
C6_NoPartialResult ==
    (DescribeCall /\ Done /\ \E i \in 1..Len(qstat) : qstat[i] = "failed") =>
        /\ outcome.kind = "returned"
        /\ Payload.error = TRUE
        /\ Payload.guidance = Troubleshooting
        /\ Payload.message \in SubQueryErrors
        /\ "markdown" \notin DOMAIN Payload

C6_Witness ==
    /\ DescribeCall
    /\ Done
    /\ Len(qstat) >= 3
    /\ qstat[1] = "ok"
    /\ \E i \in 2..Len(qstat) : qstat[i] = "failed"
    /\ \E i \in 2..Len(qstat) : qstat[i] = "inflight"
    /\ Payload.error

\* C8: with all seven flags false only the structure query is issued, and a
\* structure result of N rows (N >= 0) gives a success response made of the
\* title, the column header and exactly N column rows, row i being that of
\* result row i; nothing else is rendered.
C8_StructureOnly ==
    (DescribeCall /\ flags = {}) =>
        /\ (pc \in {"desc_await", "desc_render", "ewc_finally", "ewc_exit",
                    "done"} /\ opConn # 0 => issued = <<"structure">>)
        /\ (Done /\ qstat = <<"ok">> =>
                /\ outcome.kind = "returned"
                /\ Payload.error = FALSE
                /\ Len(Payload.markdown) = 2 + Len(qval[1])
                /\ Payload.markdown[1].tag = "title"
                /\ Payload.markdown[2].tag = "colhdr"
                /\ \A i \in 1..Len(qval[1]) :
                      /\ Payload.markdown[2 + i].tag = "col"
                      /\ Payload.markdown[2 + i].cells[1]
                            = qval[1][i].column_name)

C8_Witness ==
    /\ DescribeSucceeded
    /\ flags = {}
    /\ Len(qval[1]) = MaxCols
    /\ Len(Payload.markdown) = 2 + MaxCols

\* C9 (as stated): for the same query results and any two flag sets, every
\* section enabled under both, the structure section included, is rendered
\* identically.
C9_SectionsIndependent ==
    DescribeSucceeded =>
        \A G \in SUBSET flags :
            LET other == MarkdownUnder(G)
                given == Payload.markdown
            IN  /\ StructureOf(other) = StructureOf(given)
                /\ \A f \in G : SectionOf(other, TitleOf(f))
                                = SectionOf(given, TitleOf(f))

\* C9 (amended): for the same query results and any two flag sets, every
\* optional section enabled under both is rendered identically and the
\* structure section has the same column rows; the structure section as a
\* whole is identical when includeConstraints has the same value in both
\* (includeConstraints adds the per-column constraint lines to it).
C9_SectionsIndependentButInline ==
    DescribeSucceeded =>
        \A G \in SUBSET flags :
            LET other == MarkdownUnder(G)
                given == Payload.markdown
            IN  /\ ColumnRowsOf(other) = ColumnRowsOf(given)
                /\ (("includeConstraints" \in G)
                        = ("includeConstraints" \in flags)
                       => StructureOf(other) = StructureOf(given))
                /\ \A f \in G : SectionOf(other, TitleOf(f))
                                = SectionOf(given, TitleOf(f))

C9_Witness ==
    /\ DescribeSucceeded
    /\ flags = {"includeConstraints", "includeSampleRows", "includeIndexes"}
    /\ \E l \in 1..Len(Payload.markdown) : Payload.markdown[l].tag = "con"
    /\ SectionOf(Payload.markdown, "Sample Data") # <<>>
    /\ SectionOf(Payload.markdown, "Indexes") # <<>>

\* C10: in a successful describe-table response the structure section comes
\* first, a section heading appears only if its flag is true, and the
\* headings appear in the order constraints, sample data, RLS policies,
\* triggers, indexes, dependencies, referenced-by.
TitleRank(t) == CHOOSE i \in 1..Len(SectionTitles) : SectionTitles[i] = t

HeadingsOf(md) ==
    LET hs == SelectSeq(md, LAMBDA l : l.tag = "hdr")
    IN  [i \in 1..Len(hs) |-> hs[i].cells[1]]

C10_SectionsOrdered ==
    DescribeSucceeded =>
        LET md == Payload.markdown
            hs == HeadingsOf(md)
        IN  /\ md[1].tag = "title"
            /\ md[2].tag = "colhdr"
            /\ \A i \in 1..Len(hs) :
                  /\ \E j \in 1..Len(SectionTitles) : SectionTitles[j] = hs[i]
                  /\ FlagOrder[TitleRank(hs[i])] \in flags
            /\ \A i, j \in 1..Len(hs) :
                  i < j => TitleRank(hs[i]) < TitleRank(hs[j])

C10_Witness ==
    /\ DescribeSucceeded
    /\ flags = Flags
    /\ HeadingsOf(Payload.markdown) = SectionTitles

\* ------------------------------------------------ execute-sql guidance
ExecSqlFailed ==
    /\ Done
    /\ tool = "execute-sql"
    /\ failures \cap {"connect", "sql", "http", "network"} # {}

\* the follow-up session was opened and none of its lookups failed
LookupsSucceeded ==
    /\ "lookup" \notin failures
    /\ "guidance-connect" \notin failures
    /\ outcome.kind = "returned"

LinesOf(md) == {md[i] : i \in 1..Len(md)}

\* C11: when execute-sql fails in direct mode with 'relation "X" does not
\* exist' and the follow-up lookups succeed, the guidance of the returned
\* error payload names every base table that exists.
C11_GuidanceListsTables ==
    (/\ ExecSqlFailed
     /\ mode = "postgres"
     /\ LookupsSucceeded
     /\ relationError(Payload.message))
    => /\ Payload.error
       /\ \A i \in 1..Len(catalog.tables) :
            Line("item", <<catalog.tables[i].table_name>>)
                \in LinesOf(Payload.guidance)

\* the statement is issued against the existing table users
AgainstExistingUsers == Mentions(sqlText, "users") /\ HasUsers(catalog)

\* C12: when execute-sql fails in direct mode with 'column "C" does not
\* exist' for a statement against an existing table T, written after FROM,
\* UPDATE or INSERT INTO, schema-qualified or not, the guidance of the
\* returned error payload holds one row for every column of T.
C12_GuidanceListsColumns ==
    (/\ ExecSqlFailed
     /\ mode = "postgres"
     /\ LookupsSucceeded
     /\ columnError(Payload.message)
     /\ AgainstExistingUsers)
    => /\ Payload.error
       /\ \A i \in 1..Len(catalog.users) :
            ColumnLine(catalog.users[i]) \in LinesOf(Payload.guidance)

\* C13: every failed execute-sql query is answered by an error response
\* that reports the message of the original query error, whether the
\* follow-up lookups return rows, return nothing or fail.
C13_OriginalErrorReported ==
    ExecSqlFailed
    => /\ outcome.kind = "returned"
       /\ Payload.error
       /\ Payload.message = ErrorMessageOf(origErr)

\* ------------------------------------------------ get-function-definition
\* the call whose query succeeded with zero rows
GetFnZeroRows ==
    /\ tool = "get-function-definition"
    /\ issued = <<"function">>
    /\ qstat = <<"ok">>
    /\ qval = << <<>> >>

Names(message, name) == \E i \in 1..Len(message) : message[i] = Q(name)

\* C14: get-function-definition whose query succeeds with zero rows
\* returns, and does not throw, a result with error: true and a message
\* that names the function and the schema; the connection of the session
\* is closed on this early-return path too.
C14_NotFoundIsReturned ==
    (Done /\ GetFnZeroRows)
    => /\ outcome.kind = "returned"
       /\ Payload = createErrorResponse(JsString(FunctionNotFound))
       /\ Payload.error
       /\ Names(Payload.message, "fn")
       /\ Names(Payload.message, "public")
       /\ Len(conns) = 1
       /\ conns[1] = [st |-> "ended", ends |-> 1]

C14_Witness ==
    /\ Done
    /\ GetFnZeroRows
    /\ outcome.kind = "returned"
    /\ conns = <<[st |-> "ended", ends |-> 1]>>

\* ------------------------------------------------------------ upload-file
UploadCall == Done /\ tool = "upload-file"

\* the argument was passed by the caller (the empty string included)
Supplied(v) == v # "absent"

RejectedBeforeAnyIO ==
    /\ outcome.kind = "returned"
    /\ Payload.error
    /\ reads = 0
    /\ http = 0

StorageCallRefused ==
    /\ Done
    /\ tool \in StorageTools
    /\ "http" \in failures

Contains(text, part) ==
    \E i \in 1..(Len(text) - Len(part) + 1) :
        SubSeq(text, i, i + Len(part) - 1) = part

\* the payload shows a status the service can answer with, as a field or
\* inside its message
StatusReadable(p) ==
    \E st \in StorageStatuses :
        \/ "status" \in DOMAIN p /\ p.status = st
        \/ Contains(p.message, <<W(ToString(st))>>)

\* the payload shows a message the service can answer with
MessageReadable(p) == \E m \in StorageMessages : Contains(p.message, m)

\* C16: when the storage service answers a storage tool with a non-2xx
\* status S and a body message M, the returned payload has error: true and
\* the caller can read both S and M in it.
C16_StatusAndMessageSurface ==
    StorageCallRefused
    => /\ outcome.kind = "returned"
       /\ Payload.error
       /\ StatusReadable(Payload)
       /\ MessageReadable(Payload)

\* ------------------------------------------------ execute-sql rendering
\* the lines that show the rows: header and data lines, or the line
\* written in their place
RowContent(md) ==
    SelectSeq(md, LAMBDA l : l.tag \in {"header", "data", "text"})

\* what query() returns for the same rows in the other mode
CounterpartResults(result) ==
    IF mode = "postgres"
    THEN {QueryResult(result.rows, Len(result.rows), NULL)}
    ELSE {r \in PostgresResults : r.rows = result.rows}

\* C17: for the same sequence of rows, the empty one included, a
\* successful execute-sql response shows the same row content (header and
\* data lines, or the same no-data line) in direct and in remote mode.
C17_SameRowContentInBothModes ==
    [][(pc = "q_settled" /\ pend.k = "val")
       => \A other \in CounterpartResults(pend.v) :
            RowContent(outcome'.payload.markdown)
                = RowContent(ExecMarkdown(other))]_vars

\* ------------------------------------------------------------ registration
IsRegistered(t) == \E i \in 1..Len(registered) : registered[i] = t

RegisteredOnce ==
    \A i, j \in 1..Len(registered) : registered[i] = registered[j] => i = j

\* ENABLED_TOOLS is not set, or is set to the empty string
NoAllowList(e) ==
    \/ ~e.ENABLED_TOOLS.set
    \/ e.ENABLED_TOOLS = Str(<<Seg(0, "", 0)>>)

\* the value, split on commas and trimmed, contains the name
AllowListed(e, t) ==
    /\ e.ENABLED_TOOLS.set
    /\ \E i \in 1..Len(e.ENABLED_TOOLS.segs) : e.ENABLED_TOOLS.segs[i].name = t

RegisteredIffAllowed ==
    bootPc = "serving"
    => \A t \in Tools :
          IsRegistered(t) <=> (NoAllowList(env) \/ AllowListed(env, t))

\* C18: a tool is registered at startup if and only if no allow-list is
\* configured (ENABLED_TOOLS unset or set to an empty value) or the
\* allow-list, split on commas and trimmed, contains its name; each name is
\* registered at most once, and the registered set does not change after
\* startup.
C18_RegisteredIffAllowed ==
    /\ [](RegisteredIffAllowed /\ RegisteredOnce)
    /\ [][bootPc = "serving" => registered' = registered]_vars

\* ------------------------------------------------------------ configuration
SelectedMode(e) ==
    IF e.DATABASE_MODE = "management-api" THEN "management-api"
    ELSE "postgres"

\* every setting the mode requires is present and not empty
RequiredPresent(e) ==
    IF SelectedMode(e) = "management-api"
    THEN /\ e.SUPABASE_PROJECT_REF = "given"
         /\ e.SUPABASE_ACCESS_TOKEN = "given"
    ELSE e.SUPABASE_CONNECTION_STRING = "given"

\* no credential of the built configuration is missing or empty
NoMissingCredential(config) ==
    \A f \in DOMAIN config \ {"mode"} : config[f] = "given"

\* C19: createDatabaseClientFromEnv selects the remote mode exactly when
\* DATABASE_MODE is 'management-api' and the direct mode otherwise; it
\* returns a client if every setting required by the selected mode is
\* present and not empty and throws otherwise, so that no client has a
\* missing credential.
C19_ClientOnlyFromCompleteConfig ==
    built.k # "none"
    => /\ (built.k = "val") = RequiredPresent(env)
       /\ built.k = "val"
          => /\ built.v.mode = SelectedMode(env)
             /\ (built.v.mode = "management-api")
                    = (env.DATABASE_MODE = "management-api")
             /\ NoMissingCredential(built.v)

C19_Witness ==
    /\ built.k = "val"
    /\ built.v.mode = "management-api"
    /\ env.SUPABASE_CONNECTION_STRING = "absent"

\* the configuration of the README, Option 1: Management API Mode
ReadmeManagementApiEnv ==
    [DATABASE_MODE |-> "management-api",
     SUPABASE_PROJECT_REF |-> "given",
     SUPABASE_ACCESS_TOKEN |-> "given",
     SUPABASE_CONNECTION_STRING |-> "absent",
     SUPABASE_URL |-> "given",
     SUPABASE_SERVICE_KEY |-> "given",
     ENABLED_TOOLS |-> Unset]

\* C20: with the management-api configuration of the README the entry
\* point does not refuse to start for lack of a connection string.
C20_ManagementApiConfigStarts ==
    env = ReadmeManagementApiEnv
    => ~(/\ bootPc = "exited"
         /\ bootError = NotSet("SUPABASE_CONNECTION_STRING"))

\* ------------------------------------------------ concurrent invocations
\* the client an invocation works with is one it created itself
UsesOwnClient(i) ==
    calls[i].client # 0 => clients[calls[i].client].owner = i

\* while an invocation is issuing its statements its client is open
ClientOpenWhileRunning(i) ==
    calls[i].pc = "run" => clients[calls[i].client].st = "open"

\* the response follows from the arguments, the database and the failures
\* of the invocation's own collaborators
ExpectedOutcome(i) ==
    IF calls[i].failures = {}
    THEN Returned(createMarkdownResponse(Answer(calls[i].arg, dbState)))
    ELSE Returned(createGuidedErrorResponse(
             JsError(IF "connect" \in calls[i].failures THEN ConnectRefused
                     ELSE PermissionDenied),
             Troubleshooting))

ResponseIsOwn(i) ==
    calls[i].pc = "done" => calls[i].outcome = ExpectedOutcome(i)

\* a step changes a client only together with the invocation that owns it
\* and leaves every other invocation as it was
StepTouchesOwnOnly ==
    \A k \in 1..Len(clients) :
        clients'[k] # clients[k]
        => /\ calls'[clients[k].owner] # calls[clients[k].owner]
           /\ \A j \in Invocations \ {clients[k].owner} : calls'[j] = calls[j]

\* C21: invocations are independent: each one uses only connections it
\* created, the close or failure of one does not affect the statements of
\* another in any interleaving, and a response depends only on the
\* invocation's arguments and the database, not on other invocations.
C21_InvocationsIndependent ==
    /\ [](\A i \in Invocations :
             /\ UsesOwnClient(i)
             /\ ClientOpenWhileRunning(i)
             /\ ResponseIsOwn(i))
    /\ [][StepTouchesOwnOnly]_vars

\* one invocation has failed and closed its connection while the other is
\* still issuing statements on its own
C21_Witness ==
    /\ calls[1].pc = "run"
    /\ calls[1].kind = "session"
    /\ calls[1].left = 1
    /\ calls[2].pc = "done"
    /\ calls[2].failures # {}
    /\ clients[calls[2].client].st = "ended"
    /\ calls[2].client < calls[1].client

\* ------------------------------------------------ describe-table sections
\* the sample query was issued and succeeded with zero rows
SampleQueryEmpty ==
    /\ DescribeCall
    /\ Done
    /\ "includeSampleRows" \in flags
    /\ Len(issued) = 1 + Cardinality(flags)
    /\ \A i \in 1..Len(qstat) : qstat[i] = "ok"
    /\ ResultFor("includeSampleRows", flags, qval) = <<>>

\* C22: describe-table with includeSampleRows on a table whose sample query
\* succeeds with zero rows returns a success response holding a sample-data
\* section that is present and empty.
C22_EmptySampleSection ==
    SampleQueryEmpty
    => /\ outcome.kind = "returned"
       /\ ~Payload.error
       /\ LET section == SectionOf(Payload.markdown, "Sample Data")
          IN  /\ section # <<>>
              /\ \A i \in 1..Len(section) : section[i].tag # "data"

\* ------------------------------------------------------------ remote query
\* the POST of a remote query has been answered, and the answer was not 2xx
\* (or there was no answer)
RemoteQueryRefused ==
    /\ mode = "management-api"
    /\ pc = "q_settled"
    /\ Len(qval) = 1
    /\ qval[1].status # 200

\* the message a person can read: the body's when it has one, the raw
\* transport message otherwise
ReadableMessage(response) ==
    IF response.message # <<>> THEN response.message
    ELSE IF response.error # <<>> THEN response.error
    ELSE response.raw

OwnResult(kind) ==
    IF \E i \in 1..Len(issued) : issued[i] = kind
    THEN qval[CHOOSE i \in 1..Len(issued) : issued[i] = kind]
    ELSE NoResult

\* the document whose every section is built from its own query's result
MarkdownFromOwnResults ==
    StructureSection(flags, OwnResult("structure"),
                     OwnResult("includeConstraints"))
    \o ConstraintsSection(flags, OwnResult("includeConstraints"))
    \o SampleSection(flags, OwnResult("includeSampleRows"))
    \o RlsSection(flags, OwnResult("includeRlsPolicies"))
    \o TriggersSection(flags, OwnResult("includeTriggers"))
    \o IndexesSection(flags, OwnResult("includeIndexes"))
    \o DependenciesSection(flags, OwnResult("includeDependencies"))
    \o ReferencedBySection(flags, OwnResult("includeReferencedBy"))

\* the describe-table operation has made its client.query calls
DescribeIssued ==
    DescribeCall /\ pc \in {"desc_await", "desc_render"}

\* one query per kind: the structure query and one per selected flag
OnePerKind ==
    /\ Len(issued) = 1 + Cardinality(flags)
    /\ {issued[i] : i \in 1..Len(issued)} = {"structure"} \cup flags

\* C24: for each of the 128 flag sets describe-table issues exactly
\* 1 + |flags| queries (the structure query and one per selected flag), all
\* on the one connection of the session and all before any result is
\* awaited; the set of queries never changes afterwards; and the response
\* is the document whose sections are each built from their own query's
\* result, whatever the order in which the queries completed.
C24_OneBatchOwnResults ==
    /\ [](DescribeIssued
          => /\ OnePerKind
             /\ Len(conns) = 1 /\ opConn = 1 /\ OpenConns = {1})
    /\ [](DescribeSucceeded
          => /\ OnePerKind
             /\ Payload.markdown = MarkdownFromOwnResults)
    /\ [][DescribeCall /\ pc = "op_describe"
          => /\ Len(issued') = 1 + Cardinality(flags)
             /\ \A i \in 1..Len(issued') : qstat'[i] = "inflight"]_vars
    /\ [][DescribeIssued => issued' = issued]_vars

C24_Witness ==
    /\ DescribeSucceeded
    /\ flags = Flags
    /\ Len(issued) = 8
    /\ \A i \in 1..Len(qval) : Len(qval[i]) > 0

\* ------------------------------------------ describe-table: constraints
ConstraintsAsked ==
    DescribeSucceeded /\ "includeConstraints" \in flags

\* rows of the constraints query with and without a column name
ColumnLevel(rows) == SelectSeq(rows, LAMBDA c : c.column_name # NULL)
TableLevel(rows) == SelectSeq(rows, LAMBDA c : c.column_name = NULL)

\* every column a constraint row names is among the structure rows
ConstraintColumnsListed ==
    \A k \in 1..Len(OwnResult("includeConstraints")) :
        LET c == OwnResult("includeConstraints")[k]
        IN  c.column_name # NULL
            => \E i \in 1..Len(OwnResult("structure")) :
                   OwnResult("structure")[i].column_name = c.column_name

LinesTagged(md, tag) == SelectSeq(md, LAMBDA l : l.tag = tag)

\* the inline constraint lines printed right under the i-th column line
RECURSIVE InlineRun(_, _)
InlineRun(md, from) ==
    IF from > Len(md) \/ md[from].tag # "con" THEN <<>>
    ELSE <<md[from]>> \o InlineRun(md, from + 1)

ColumnLinePositions(md) == {p \in 1..Len(md) : md[p].tag = "col"}

\* position of the i-th column line
NthColumnLine(md, i) ==
    CHOOSE p \in ColumnLinePositions(md) :
        Cardinality({q \in ColumnLinePositions(md) : q < p}) = i - 1

\* C25: with includeConstraints, every row of the constraints query is
\* reported exactly once: a row with a column name as one inline line under
\* the structure row of the equal column name and under no other, a row
\* without a column name as one line of the table-level section; as many
\* lines are printed as there are rows.
C25_EachConstraintOnce ==
    ConstraintsAsked /\ ConstraintColumnsListed
    => LET md == Payload.markdown
           rows == OwnResult("includeConstraints")
           structure == OwnResult("structure")
       IN  /\ Len(LinesTagged(md, "con")) = Len(ColumnLevel(rows))
           /\ Len(LinesTagged(md, "tcon")) = Len(TableLevel(rows))
           /\ \A i \in 1..Len(structure) :
                InlineRun(md, NthColumnLine(md, i) + 1)
                  = [j \in 1..Len(ConstraintsByColumn(rows,
                                      structure[i].column_name)) |->
                        InlineConstraintLine(
                            ConstraintsByColumn(rows,
                                structure[i].column_name)[j])]

\* ------------------------------------------------- list-tables: ordering
\* the table-list query has not completed yet
ListPending == ListCall /\ pc \in {"ewc", "ewc_connect", "op_list"}

\* the COUNT queries have been issued and the operation has not returned
ListCounting == ListCall /\ pc \in {"list_await", "list_render"}

CountInFlight == \E i \in 1..Len(qstat) : qstat[i] = "inflight"

SessionEnded == conns # <<>> /\ conns[Len(conns)].st = "ended"

\* the table-list query failed
ListQueryFailed == ListCall /\ "sql" \in failures

\* C26: in list-tables no COUNT query exists while the table-list query
\* has not completed; once it has, there is exactly one COUNT query per
\* listed table, all on the one open session connection, and none is added
\* later; the session connection is ended only when no COUNT query is in
\* flight; and when the table-list query fails no COUNT query is issued and
\* the invocation returns an error payload.
C26_CountsAfterListBeforeEnd ==
    /\ [](ListPending => issued = <<>> /\ qstat = <<>>)
    /\ [](ListCounting
          => /\ Len(qstat) = Len(issued)
             /\ Len(conns) = 1 /\ opConn = 1 /\ OpenConns = {1})
    /\ [][ListCounting => issued' = issued]_vars
    /\ [](ListCall /\ SessionEnded => ~CountInFlight)
    /\ [](ListQueryFailed => issued = <<>> /\ qstat = <<>>)
    /\ [](ListQueryFailed /\ Done
          => outcome.kind = "returned" /\ Payload.error)

\* two tables listed, one COUNT succeeded and one failed, connection ended
C26_Witness ==
    /\ ListCall /\ SessionEnded
    /\ Len(issued) = 2
    /\ qstat[1] = "failed" /\ qstat[2] = "ok"

\* the table-list query failed and the invocation has returned
C26_FailedListWitness ==
    ListQueryFailed /\ Done /\ Payload.error

\* ------------------------------------------- execute-sql: the three bodies
CommandOnlyText == Line("text", <<"Query executed successfully">>)
NoRowsText == Line("text", <<"No rows returned">>)

\* which body a rendered result shows
BodyOf(md) ==
    IF LinesTagged(md, "header") # <<>> \/ LinesTagged(md, "data") # <<>>
    THEN "table"
    ELSE IF LinesTagged(md, "text") = <<CommandOnlyText>> THEN "command only"
    ELSE IF LinesTagged(md, "text") = <<NoRowsText>> THEN "no rows"
    ELSE "none"

\* query() has returned a result to the execute-sql handler
ExecResultAtHand ==
    tool = "execute-sql" /\ pc = "q_settled" /\ pend.k = "val"

\* the body the handler renders is the one the result calls for, and the
\* table has one header line and one data line per row
RendersItsBody(result, md) ==
    /\ Len(result.rows) > 0
       => /\ BodyOf(md) = "table"
          /\ Len(LinesTagged(md, "header")) = 1
          /\ Len(LinesTagged(md, "data")) = Len(result.rows)
          /\ LinesTagged(md, "text") = <<>>
    /\ Len(result.rows) = 0 /\ result.command # NULL
       => BodyOf(md) = "command only"
    /\ Len(result.rows) = 0 /\ result.command = NULL
       => BodyOf(md) = "no rows"

ExecSucceeded ==
    tool = "execute-sql" /\ Done /\ outcome.kind = "returned" /\ ~Payload.error

C27_DirectCommandOnly ==
    /\ ExecSucceeded /\ mode = "postgres"
    /\ BodyOf(Payload.markdown) = "command only"

C27_DirectNoRows ==
    /\ ExecSucceeded /\ mode = "postgres"
    /\ BodyOf(Payload.markdown) = "no rows"

\* ------------------------------------------ guided error: the table name
\* createEnhancedErrorResponse has taken the lookup path for the failed
\* statement and its operation runs on an open session: the table name it
\* works with is extractTableFromError(errorMessage, query)
LookupPathTaken ==
    /\ tool = "execute-sql" /\ op = "guidance"
    /\ pc \in {"op_guidance", "guid_tables"}

\* the name the six patterns yield from the error text alone
NameInErrorText(msg) == extractTableFromError(msg, <<>>)

\* C28: in the guided-error path, when a pattern yields a table name from
\* the error text, that name is the one extractTableFromError returns: the
\* text of the statement is scanned only when no pattern matches the error
\* text, so a name found in the statement never replaces a name present in
\* the error message.
C28_ErrorTextNameWins ==
    LookupPathTaken
    => LET msg == ErrorMessageOf(origErr)
       IN  NameInErrorText(msg) # NULL
           => extractTableFromError(msg, sqlText) = NameInErrorText(msg)

\* ------------------------------------ describe-table: end of the session
\* sub-queries issued on the session connection and not settled yet
InFlight == {i \in 1..Len(qstat) : qstat[i] = "inflight"}

\* C29: in describe-table the session connection is never ended while a
\* sub-query issued on it is still in flight: when end() has been called
\* every issued sub-query has settled, also after a sub-query failed.
C29_NoEndWhileInFlight ==
    DescribeCall /\ SessionEnded => InFlight = {}

\* -------------------------------------------- session tools, remote mode
RemoteSessionCall == mode = "management-api" /\ tool \in SessionTools

\* nothing has gone out: no client, no query, no HTTP request
NothingSent ==
    /\ conns = <<>> /\ opConn = 0
    /\ issued = <<>> /\ qstat = <<>> /\ qval = <<>>
    /\ http = 0

\* C30: in remote mode an invocation of describe-table, list-tables,
\* describe-functions or get-function-definition, whatever its arguments,
\* creates no client, issues no query and sends no HTTP request at any
\* point, and ends by returning an error payload (the message of
\* executeWithClient's mode test with the troubleshooting guidance).
C30_RemoteSessionToolsRefuse ==
    RemoteSessionCall
    => /\ NothingSent
       /\ pc \in {"ewc", "ewc_exit", "done"}
       /\ Done
          => /\ outcome.kind = "returned"
             /\ Payload.error
             /\ Payload.message = RequiresPostgresMsg
             /\ Payload.guidance = Troubleshooting

\* describe-table called with all flags in remote mode has returned
C30_Witness ==
    /\ RemoteSessionCall /\ Done
    /\ tool = "describe-table" /\ flags = Flags
    /\ outcome.kind = "returned" /\ Payload.error

\* execute-sql does reach the database in remote mode
C30_RemoteExecuteSqlPosts ==
    /\ mode = "management-api" /\ tool = "execute-sql"
    /\ http = 1 /\ ExecSucceeded

====
